---- MODULE Spec2Model ----
(***************************************************************************)
(* gh-agent: the unified-diff hunk parser, the commentability index, the   *)
(* review-comment validation of pr_review, the rendering and export of     *)
(* pr_diff, the change classifier, the pattern detector and the rendering  *)
(* of the smart triage report, the noise filter, the file selection of     *)
(* pr_grep and pr_ast_grep, the concurrent content fetch of get_file_pairs *)
(* with the batch sent to the semantic diff, and parse_raw_diff.           *)
(*                                                                         *)
(* Texts (patch lines, file contents) are sequences of one-character       *)
(* strings, so that prefix tests, trimming, splitting and number parsing   *)
(* are computed and not assumed.  An optional value is a sequence of       *)
(* length at most one: None is <<>> and Some(x) is <<x>>.                   *)
(***************************************************************************)
EXTENDS Integers, Sequences, FiniteSets, TLC

VARIABLES
    \* ---- parse_patch, run line by line over one file's patch
    patch,          \* the input: a sequence of lines
    pos,            \* index of the next line to consume
    pst,            \* the parser's state: hunks so far and the two counters
    \* ---- pr_review
    rvFiles,        \* pr.files: sequence of [filename, status, deletions, patch]
    rvComments,     \* input.comments
    rvIdx,          \* position of the for loop over input.comments
    valid_comments, \* Vec<ReviewCommentInput>
    warnings,       \* Vec<String>, one entry per rejected comment
    rvPc,           \* "read" | "loop" | "post" | "done"
    rvResult,       \* "none" | "ok" | "err_read" | "err_parse" | "err_no_valid" | "err_host"
    posted,         \* reviews handed to create_review
    \* ---- pr_diff
    dfFiles,        \* pr.files
    dfOpts,         \* [file_filters, smart_files, sem, include_all, stat_only, json]
    dfSmart,        \* smart_list
    dfPc,           \* "start" | "fetched" | "listed" | "done" | "failed"
    dfOut,          \* what the command printed
    \* ---- categorize_change
    change,         \* the SemChange handed to the classifier
    categorized,    \* Option of the CategorizedChange it returned
    clPc,           \* "start" | "done"
    \* ---- format_smart_output (categorize, detect_patterns, render)
    parsed,         \* SemOutput: [changes : Option of a sequence of SemChange, summary]
    trCategorized,  \* Vec<CategorizedChange>
    patterns,       \* Vec<(String, Vec<usize>)> returned by detect_patterns
    trReport,       \* Option of the rendered report
    trPc,           \* "start" | "categorized" | "detected" | "done"
    \* ---- pr_grep and pr_ast_grep
    srFiles,        \* pr.files, by filename
    srItems,        \* the paths the repo-wide code search answers
    srOpts,         \* [cmd, file_filters, repo_wide, include_all]
    srPaths,        \* pr_file_paths once filtered
    srPc,           \* "start" | "fetched" | "filtered" | "done"
    srOut,          \* Option of what the command searched and printed
    \* ---- get_file_pairs and the batch built for the semantic diff
    gpOpts,         \* [cmd, include_all]: pr_view --smart or pr_diff --smart-files
    gpPr,           \* the file nodes the host answers: [path, changeType]
    gpFiles,        \* the files handed to get_file_pairs
    futs,           \* one future per file: [stage, before, after, failed]
    gpOrder,        \* the positions of the futures in the order they completed
    pairs,          \* Option of the vector join_all returns
    file_inputs,    \* Option of the batch sent to the semantic diff
    gpPc,           \* "start" | "fetching" | "joined" | "done"
    \* ---- two runs of categorize_change on one record
    rrChange,       \* the SemChange
    rrRuns,         \* the CategorizedChange of each run so far
    \* ---- parse_raw_diff
    raw,            \* raw.lines(): the lines of the raw diff
    patch_map,      \* Option of the map filename -> patch
    rawPc           \* "start" | "done"

parserVars == <<patch, pos, pst>>
reviewVars == <<rvFiles, rvComments, rvIdx, valid_comments, warnings, rvPc, rvResult, posted>>
diffVars == <<dfFiles, dfOpts, dfSmart, dfPc, dfOut>>
classVars == <<change, categorized, clPc>>
triageVars == <<parsed, trCategorized, patterns, trReport, trPc>>
searchVars == <<srFiles, srItems, srOpts, srPaths, srPc, srOut>>
pairsVars == <<gpOpts, gpPr, gpFiles, futs, gpOrder, pairs, file_inputs, gpPc>>
rerunVars == <<rrChange, rrRuns>>
rawVars == <<raw, patch_map, rawPc>>
vars == <<parserVars, reviewVars, diffVars, classVars, triageVars, searchVars,
          pairsVars, rerunVars, rawVars>>

None == <<>>
Some(x) == <<x>>
IsSome(o) == o # <<>>
Unwrap(o) == o[1]

(***************************************************************************)
(* Text helpers.                                                           *)
(***************************************************************************)
StartsWith(s, p) == Len(s) >= Len(p) /\ SubSeq(s, 1, Len(p)) = p
EndsWith(s, p) == Len(s) >= Len(p) /\ SubSeq(s, Len(s) - Len(p) + 1, Len(s)) = p
Drop(s, n) == SubSeq(s, n + 1, Len(s))

Digits == <<"0", "1", "2", "3", "4", "5", "6", "7", "8", "9">>
IsDigit(c) == \E d \in 1..10 : Digits[d] = c
DigitVal(c) == (CHOOSE d \in 1..10 : Digits[d] = c) - 1

\* The position after the run of digits of s that starts at position i.
RECURSIVE DigitsEnd(_, _)
DigitsEnd(s, i) ==
    IF i <= Len(s) /\ IsDigit(s[i]) THEN DigitsEnd(s, i + 1) ELSE i

\* The decimal value of the digits s[i..j-1].
RECURSIVE DecimalValue(_, _, _)
DecimalValue(s, i, j) ==
    IF j <= i THEN 0 ELSE DecimalValue(s, i, j - 1) * 10 + DigitVal(s[j - 1])

\* The decimal text of a natural number.
RECURSIVE ToDecimal(_)
ToDecimal(n) ==
    IF n < 10 THEN <<Digits[n + 1]>>
    ELSE ToDecimal(n \div 10) \o <<Digits[(n % 10) + 1]>>

(***************************************************************************)
(* DiffHunkParser (spec 4.1).  crate::diff is not among the sources; the   *)
(* parser is modelled from its specification.                              *)
(***************************************************************************)
NoHeader == [ok |-> FALSE, old_start |-> 0, old_count |-> 0, new_start |-> 0, new_count |-> 0]

\* One "start[,count]" range of a header, read at position i:
\* <<ok, start, count, next position>>; the count defaults to 1.
parse_range(s, i) ==
    LET j == DigitsEnd(s, i) IN
    IF j = i THEN <<FALSE, 0, 0, i>>
    ELSE IF j <= Len(s) /\ s[j] = ","
         THEN LET k == DigitsEnd(s, j + 1) IN
              IF k = j + 1 THEN <<FALSE, 0, 0, i>>
              ELSE <<TRUE, DecimalValue(s, i, j), DecimalValue(s, j + 1, k), k>>
         ELSE <<TRUE, DecimalValue(s, i, j), 1, j>>

\* A line matching  @@ -O[,OC] +N[,NC] @@...
parse_hunk_header(line) ==
    IF ~StartsWith(line, <<"@", "@", " ", "-">>) THEN NoHeader
    ELSE LET o == parse_range(line, 5) IN
         IF ~o[1] THEN NoHeader
         ELSE IF ~StartsWith(Drop(line, o[4] - 1), <<" ", "+">>) THEN NoHeader
         ELSE LET n == parse_range(line, o[4] + 2) IN
              IF ~n[1] THEN NoHeader
              ELSE IF ~StartsWith(Drop(line, n[4] - 1), <<" ", "@", "@">>) THEN NoHeader
              ELSE [ok |-> TRUE, old_start |-> o[2], old_count |-> o[3],
                    new_start |-> n[2], new_count |-> n[3]]

LooksLikeHeader(line) == StartsWith(line, <<"@", "@">>)

MetadataPrefixes ==
    { <<"\\">>,
      <<"+", "+", "+">>,
      <<"-", "-", "-">>,
      <<"i", "n", "d", "e", "x", " ">>,
      <<"n", "e", "w", " ", "f", "i", "l", "e">>,
      <<"d", "e", "l", "e", "t", "e", "d", " ", "f", "i", "l", "e">>,
      <<"o", "l", "d", " ", "m", "o", "d", "e">>,
      <<"n", "e", "w", " ", "m", "o", "d", "e">>,
      <<"s", "i", "m", "i", "l", "a", "r", "i", "t", "y">>,
      <<"r", "e", "n", "a", "m", "e", " ">> }

MetadataPrefixesWithoutMarker == MetadataPrefixes \ {<<"\\">>}
is_metadata_without_marker(line) ==
    \E p \in MetadataPrefixesWithoutMarker : StartsWith(line, p)

\* Diff metadata: consumed, never emitted.
is_metadata(line) == \E p \in MetadataPrefixes : StartsWith(line, p)

LineKind(line) ==
    IF LooksLikeHeader(line) THEN "header"
    ELSE IF is_metadata(line) THEN "metadata"
    ELSE IF StartsWith(line, <<"+">>) THEN "add"
    ELSE IF StartsWith(line, <<"-">>) THEN "delete"
    ELSE "context"

DiffLine(kind, line, old, new) ==
    [kind |-> kind,
     content |-> IF Len(line) > 0 /\ line[1] \in {"+", "-", " "} THEN Drop(line, 1) ELSE line,
     old_line |-> old, new_line |-> new]

PushLine(st, rec) ==
    [st EXCEPT !.hunks[Len(st.hunks)].lines = Append(@, rec)]

InitialParse == [hunks |-> <<>>, in_hunk |-> FALSE, old_line |-> 0, new_line |-> 0]

\* A valid header starts a new hunk and initialises both counters.
start_hunk_keeps_counters(st, line, h) ==
    [hunks |-> Append(st.hunks,
                [header |-> line, old_start |-> h.old_start, old_count |-> h.old_count,
                 new_start |-> h.new_start, new_count |-> h.new_count, lines |-> <<>>]),
     in_hunk |-> TRUE, old_line |-> st.old_line, new_line |-> st.new_line]

start_hunk(st, line, h) ==
    [hunks |-> Append(st.hunks,
                [header |-> line, old_start |-> h.old_start, old_count |-> h.old_count,
                 new_start |-> h.new_start, new_count |-> h.new_count, lines |-> <<>>]),
     in_hunk |-> TRUE, old_line |-> h.old_start, new_line |-> h.new_start]

\* An unparseable header ends the current hunk; lines are skipped until the
\* next recognizable header.
skip_bad_header_stays_in_hunk(st) == st

skip_bad_header(st) == [st EXCEPT !.in_hunk = FALSE]

add_line(st, line) ==
    [PushLine(st, DiffLine("add", line, None, Some(st.new_line)))
        EXCEPT !.new_line = @ + 1]

delete_line_with_new_line(st, line) ==
    [PushLine(st, DiffLine("delete", line, Some(st.old_line), Some(st.new_line)))
        EXCEPT !.old_line = @ + 1]

delete_line(st, line) ==
    [PushLine(st, DiffLine("delete", line, Some(st.old_line), None))
        EXCEPT !.old_line = @ + 1]

context_line(st, line) ==
    [PushLine(st, DiffLine("context", line, Some(st.old_line), Some(st.new_line)))
        EXCEPT !.old_line = @ + 1, !.new_line = @ + 1]

\* The parsing rule for one line.
parse_line(st, line) ==
    LET kind == LineKind(line) IN
    IF kind = "header" THEN
        LET h == parse_hunk_header(line) IN
        IF h.ok THEN start_hunk(st, line, h) ELSE skip_bad_header(st)
    ELSE IF ~st.in_hunk \/ kind = "metadata" THEN st
    ELSE IF kind = "add" THEN add_line(st, line)
    ELSE IF kind = "delete" THEN delete_line(st, line)
    ELSE context_line(st, line)

RECURSIVE parse_from(_, _, _)
parse_from(st, lines, i) ==
    IF i > Len(lines) THEN st ELSE parse_from(parse_line(st, lines[i]), lines, i + 1)

\* parse_patch: raw patch text of one file -> ordered hunks.
parse_patch(lines) == parse_from(InitialParse, lines, 1).hunks

(***************************************************************************)
(* CommentabilityIndex (spec 4.2), modelled from its specification.        *)
(***************************************************************************)
RECURSIVE hunk_new_lines(_, _)
hunk_new_lines(lines, i) ==
    IF i > Len(lines) THEN {}
    ELSE (IF lines[i].kind \in {"add", "context"} /\ IsSome(lines[i].new_line)
          THEN {Unwrap(lines[i].new_line)} ELSE {})
         \cup hunk_new_lines(lines, i + 1)

RECURSIVE commentable_from(_, _)
commentable_from(hunks, i) ==
    IF i > Len(hunks) THEN {}
    ELSE hunk_new_lines(hunks[i].lines, 1) \cup commentable_from(hunks, i + 1)

commentable_lines_with_deletes(hunks) ==
    UNION {UNION {{x[1] : x \in {hunks[k].lines[i].old_line, hunks[k].lines[i].new_line} \ {<<>>}}
                  : i \in 1..Len(hunks[k].lines)}
           : k \in 1..Len(hunks)}

commentable_lines(hunks) == commentable_from(hunks, 1)

(***************************************************************************)
(* The parser's inputs.  A patch is a sequence of at most MaxLines lines,  *)
(* each taken from one lexicon: a hunk header, a malformed header, an add, *)
(* a delete and a context line, and one diff metadata line.                *)
(***************************************************************************)
MaxLines == 5

\* The text of the header  @@ -O[,OC] +N[,NC] @@<trailer>
FormatHeader(o, oc, n, nc, counts, trailer) ==
    <<"@", "@", " ", "-">> \o ToDecimal(o)
    \o (IF counts THEN <<",">> \o ToDecimal(oc) ELSE <<>>)
    \o <<" ", "+">> \o ToDecimal(n)
    \o (IF counts THEN <<",">> \o ToDecimal(nc) ELSE <<>>)
    \o <<" ", "@", "@">> \o trailer

Lexicons ==
    { [o |-> 1, oc |-> 2, n |-> 1, nc |-> 3, counts |-> TRUE, trailer |-> <<>>,
       bad |-> <<"@", "@", " ", "-", "x", " ", "+", "1", " ", "@", "@">>,
       add |-> <<"+", "a">>, del |-> <<"-", "b">>, ctx |-> <<" ", "c">>,
       meta |-> <<"\\", " ", "N", "o", " ", "n", "e", "w", "l", "i", "n", "e", " ",
                  "a", "t", " ", "e", "n", "d", " ", "o", "f", " ", "f", "i", "l", "e">>],
      [o |-> 12, oc |-> 1, n |-> 7, nc |-> 1, counts |-> FALSE, trailer |-> <<>>,
       bad |-> <<"@", "@">>,
       add |-> <<"+", "+", "a">>, del |-> <<"-", "-", "b">>, ctx |-> <<>>,
       meta |-> <<"+", "+", "+", " ", "b", "/", "f">>],
      [o |-> 3, oc |-> 1, n |-> 4, nc |-> 2, counts |-> TRUE, trailer |-> <<" ", "f", "n">>,
       bad |-> <<"@", "@", " ", "-", "1", ",", "2", " ", "1", ",", "3", " ", "@", "@">>,
       add |-> <<"+">>, del |-> <<"-">>, ctx |-> <<"c">>,
       meta |-> <<"-", "-", "-", " ", "a", "/", "f">>],
      [o |-> 0, oc |-> 0, n |-> 1, nc |-> 1, counts |-> TRUE, trailer |-> <<>>,
       bad |-> <<"@", "@", " ", "-", "1", ",", " ", "+", "1", " ", "@", "@">>,
       add |-> <<"+", " ", "a">>, del |-> <<"-", " ", "b">>, ctx |-> <<" ">>,
       meta |-> <<"i", "n", "d", "e", "x", " ", "1", "a", ".", ".", "2", "b">>],
      [o |-> 9, oc |-> 3, n |-> 10, nc |-> 4, counts |-> TRUE, trailer |-> <<>>,
       bad |-> <<"@", "@", " ", "-", "1", ",", "2", " ", "+", "1", ",", "3">>,
       add |-> <<"+", "a">>, del |-> <<"-", "b">>, ctx |-> <<" ", "c">>,
       meta |-> <<"n", "e", "w", " ", "m", "o", "d", "e", " ", "1">>],
      [o |-> 2, oc |-> 1, n |-> 2, nc |-> 1, counts |-> FALSE, trailer |-> <<>>,
       bad |-> <<"@", "@", " ", "+", "1", " ", "-", "1", " ", "@", "@">>,
       add |-> <<"+", "a">>, del |-> <<"-", "b">>, ctx |-> <<" ", "c">>,
       meta |-> <<"r", "e", "n", "a", "m", "e", " ", "t", "o", " ", "f">>],
      [o |-> 1, oc |-> 1, n |-> 1, nc |-> 1, counts |-> TRUE, trailer |-> <<>>,
       bad |-> <<"@", "@", " ", "-", "x", " ", "+", "1", " ", "@", "@">>,
       add |-> <<"+", "a">>, del |-> <<"-", "b">>, ctx |-> <<" ", "c">>,
       meta |-> <<"s", "i", "m", "i", "l", "a", "r", "i", "t", "y", " ",
                  "i", "n", "d", "e", "x", " ", "9">>] }

HeaderOf(lx) == FormatHeader(lx.o, lx.oc, lx.n, lx.nc, lx.counts, lx.trailer)
LinesOf(lx) == {HeaderOf(lx), lx.bad, lx.add, lx.del, lx.ctx, lx.meta}
PatchesOf(lx) == UNION {[1..k -> LinesOf(lx)] : k \in 0..MaxLines}
SamplePatches == UNION {PatchesOf(lx) : lx \in Lexicons}

(***************************************************************************)
(* Idle values of the components a specification does not run.             *)
(***************************************************************************)
ParserIdle == patch = <<>> /\ pos = 1 /\ pst = InitialParse
ReviewIdle ==
    /\ rvFiles = <<>> /\ rvComments = <<>> /\ rvIdx = 1
    /\ valid_comments = <<>> /\ warnings = <<>>
    /\ rvPc = "idle" /\ rvResult = "none" /\ posted = <<>>
DiffIdle ==
    dfFiles = <<>> /\ dfOpts = <<>> /\ dfSmart = <<>> /\ dfPc = "idle" /\ dfOut = None
ClassIdle == change = <<>> /\ categorized = None /\ clPc = "idle"
TriageIdle ==
    /\ parsed = <<>> /\ trCategorized = <<>> /\ patterns = <<>>
    /\ trReport = None /\ trPc = "idle"
SearchIdle ==
    /\ srFiles = <<>> /\ srItems = <<>> /\ srOpts = <<>> /\ srPaths = <<>>
    /\ srPc = "idle" /\ srOut = None
PairsIdle ==
    /\ gpOpts = <<>> /\ gpPr = <<>> /\ gpFiles = <<>> /\ futs = <<>> /\ gpOrder = <<>>
    /\ pairs = None /\ file_inputs = None /\ gpPc = "idle"
RerunIdle == rrChange = <<>> /\ rrRuns = <<>>
RawIdle == raw = <<>> /\ patch_map = None /\ rawPc = "idle"
OthersIdle == PairsIdle /\ RerunIdle /\ RawIdle

(***************************************************************************)
(* The parser, one line per step.                                          *)
(***************************************************************************)
ParserInit ==
    /\ patch \in SamplePatches
    /\ pos = 1
    /\ pst = InitialParse
    /\ ReviewIdle /\ DiffIdle /\ ClassIdle /\ TriageIdle /\ SearchIdle /\ OthersIdle

ParseLine ==
    /\ pos <= Len(patch)
    /\ pst' = parse_line(pst, patch[pos])
    /\ pos' = pos + 1
    /\ UNCHANGED <<patch, reviewVars, diffVars, classVars, triageVars, searchVars,
                 pairsVars, rerunVars, rawVars>>

ParserNext == ParseLine
SpecParser == ParserInit /\ [][ParserNext]_vars

ParseFinished == pos = Len(patch) + 1

(***************************************************************************)
(* Properties of the parser and of the commentability index.               *)
(***************************************************************************)
HunkIds == 1..Len(pst.hunks)
Consumed == 1..(pos - 1)
HasNew(r) == r.kind \in {"add", "context"}
HasOld(r) == r.kind \in {"delete", "context"}
NotDelete(r) == r.kind # "delete"
NewRecords(h) == SelectSeq(h.lines, HasNew)
OldRecords(h) == SelectSeq(h.lines, HasOld)
WithoutDeletes(hunks) ==
    [k \in 1..Len(hunks) |-> [hunks[k] EXCEPT !.lines = SelectSeq(@, NotDelete)]]

BodySamples == UNION {{lx.add, lx.del, lx.ctx} : lx \in Lexicons}
MetadataSamples == {lx.meta : lx \in Lexicons}
IsValidHeaderLine(line) == \E lx \in Lexicons : line = HeaderOf(lx)
ValidHeaderPositions == {i \in Consumed : IsValidHeaderLine(patch[i])}
KthPosition(S, k) == CHOOSE i \in S : Cardinality({j \in S : j < i}) = k - 1
\* The end of the hunk body that starts after position p: the next line
\* that looks like a header, or the end of what was consumed.
BodyEnd(p) ==
    LET next == {i \in Consumed : i > p /\ LooksLikeHeader(patch[i])} IN
    IF next = {} THEN pos - 1 ELSE (CHOOSE i \in next : \A j \in next : i <= j) - 1
BodyLines(p) == {i \in (p + 1)..BodyEnd(p) : patch[i] \in BodySamples}

\* C3: CommentableLines is exactly the set of new_line values carried by the
\* Add and Context records of all hunks; Delete records contribute nothing,
\* so a number carried only by a Delete record is never in the set.
C3_CommentableExact ==
    LET cl == commentable_lines(pst.hunks) IN
    /\ cl = {n \in 0..(MaxLines + 20) :
                \E k \in HunkIds : \E i \in 1..Len(pst.hunks[k].lines) :
                    /\ HasNew(pst.hunks[k].lines[i])
                    /\ pst.hunks[k].lines[i].new_line = Some(n)}
    /\ cl = commentable_lines(WithoutDeletes(pst.hunks))
    /\ \A k \in HunkIds : \A i \in 1..Len(pst.hunks[k].lines) :
          LET r == pst.hunks[k].lines[i] IN
          (r.kind = "delete" /\ Unwrap(r.old_line) \in cl)
              => \E k2 \in HunkIds : \E i2 \in 1..Len(pst.hunks[k2].lines) :
                    /\ HasNew(pst.hunks[k2].lines[i2])
                    /\ pst.hunks[k2].lines[i2].new_line = r.old_line

\* C3 witness: a parsed hunk with a Delete record whose number is not
\* commentable beside Add and Context records whose numbers are.
C3_Witness ==
    /\ ParseFinished
    /\ \E k \in HunkIds :
          /\ \E i \in 1..Len(pst.hunks[k].lines) :
                /\ pst.hunks[k].lines[i].kind = "delete"
                /\ Unwrap(pst.hunks[k].lines[i].old_line) \notin commentable_lines(pst.hunks)
          /\ \E i \in 1..Len(pst.hunks[k].lines) : pst.hunks[k].lines[i].kind = "add"
          /\ \E i \in 1..Len(pst.hunks[k].lines) : pst.hunks[k].lines[i].kind = "context"
    /\ Cardinality(commentable_lines(pst.hunks)) >= 2

\* C4: in every hunk whose header is  @@ -O,OC +N,NC @@  the new_line values
\* of the Add and Context records are N, N+1, ... in record order and the
\* old_line values of the Delete and Context records are O, O+1, ...; every
\* header re-initialises both counters.
C4_HunkNumbering ==
    \A k \in HunkIds :
        LET h == pst.hunks[k] IN
        /\ IsValidHeaderLine(h.header)
        /\ \A lx \in Lexicons :
              h.header = HeaderOf(lx) =>
                /\ \A j \in 1..Len(NewRecords(h)) : NewRecords(h)[j].new_line = Some(lx.n + j - 1)
                /\ \A j \in 1..Len(OldRecords(h)) : OldRecords(h)[j].old_line = Some(lx.o + j - 1)

\* C4 witness: two hunks, the second one numbering its records from its own
\* header again after the first hunk advanced both counters.
C4_Witness ==
    /\ Len(pst.hunks) = 2
    /\ Len(NewRecords(pst.hunks[1])) >= 1 /\ Len(OldRecords(pst.hunks[1])) >= 1
    /\ Len(NewRecords(pst.hunks[2])) >= 1
    /\ NewRecords(pst.hunks[2])[1].new_line = Some(pst.hunks[2].new_start)
    /\ pst.hunks[2].new_start > 1

\* C5: an Add record has old_line absent and new_line present, a Delete
\* record has new_line absent and old_line present, a Context record has both.
C5_RecordShape ==
    \A k \in HunkIds : \A i \in 1..Len(pst.hunks[k].lines) :
        LET r == pst.hunks[k].lines[i] IN
        /\ r.kind \in {"add", "delete", "context"}
        /\ r.kind = "add" => (r.old_line = None /\ IsSome(r.new_line))
        /\ r.kind = "delete" => (r.new_line = None /\ IsSome(r.old_line))
        /\ r.kind = "context" => (IsSome(r.old_line) /\ IsSome(r.new_line))

\* C5 witness: one hunk holding an Add, a Delete and a Context record.
C5_Witness ==
    \E k \in HunkIds :
        \A kind \in {"add", "delete", "context"} :
            \E i \in 1..Len(pst.hunks[k].lines) : pst.hunks[k].lines[i].kind = kind

\* C6: a diff metadata line is consumed without producing a record and
\* without advancing a counter, wherever it occurs in the patch.
C6_MetadataSkipped ==
    [][(pos <= Len(patch) /\ patch[pos] \in MetadataSamples) => pst' = pst]_vars

\* C6 witness: a metadata line consumed inside a hunk, between two records
\* that carry consecutive line numbers.
C6_Witness ==
    /\ pos = 5
    /\ patch[3] \in MetadataSamples
    /\ Len(pst.hunks) = 1
    /\ Len(pst.hunks[1].lines) = 2
    /\ pst.hunks[1].lines[1].kind = "add" /\ pst.hunks[1].lines[2].kind = "add"
    /\ Unwrap(pst.hunks[1].lines[2].new_line) = Unwrap(pst.hunks[1].lines[1].new_line) + 1

\* C7: the parser never fails; a line that looks like a hunk header but does
\* not parse only ends the current hunk, the lines up to the next header are
\* skipped, and every valid header before and after it yields its hunk, with
\* the header's own start numbers and the body lines that follow it.
C7_ParserTotal ==
    /\ Len(pst.hunks) = Cardinality(ValidHeaderPositions)
    /\ \A k \in HunkIds :
          LET p == KthPosition(ValidHeaderPositions, k)
              h == pst.hunks[k] IN
          /\ h.header = patch[p]
          /\ \A lx \in Lexicons :
                patch[p] = HeaderOf(lx) =>
                    /\ h.old_start = lx.o /\ h.old_count = lx.oc
                    /\ h.new_start = lx.n /\ h.new_count = lx.nc
          /\ Len(h.lines) = Cardinality(BodyLines(p))
    /\ (pos <= Len(patch)) =>
          LET st == parse_line(pst, patch[pos]) IN
          /\ Len(st.hunks) >= Len(pst.hunks)
          /\ \A k \in HunkIds : k < Len(pst.hunks) => st.hunks[k] = pst.hunks[k]

\* C7 witness: a malformed header between two valid ones; the line after it
\* is skipped and the second hunk numbers its record from its own header.
C7_Witness ==
    /\ ParseFinished
    /\ Len(patch) = 5
    /\ IsValidHeaderLine(patch[1])
    /\ LooksLikeHeader(patch[2]) /\ ~IsValidHeaderLine(patch[2])
    /\ patch[3] \in BodySamples
    /\ IsValidHeaderLine(patch[4])
    /\ Len(pst.hunks) = 2
    /\ pst.hunks[1].lines = <<>>
    /\ Len(pst.hunks[2].lines) = 1
    /\ pst.hunks[2].lines[1].kind = "add"
    /\ pst.hunks[2].lines[1].new_line = Some(pst.hunks[2].new_start)

(***************************************************************************)
(* pr_review: validation of the proposed comments and submission.          *)
(***************************************************************************)
PrFile(filename, status, additions, deletions, patch_) ==
    [filename |-> filename, status |-> status, additions |-> additions,
     deletions |-> deletions, patch |-> patch_]

\* f.patch.as_deref().map(parse_patch).unwrap_or_default()
hunks_of(f) == IF IsSome(f.patch) THEN parse_patch(Unwrap(f.patch)) ELSE <<>>

\* The map filename -> commentable lines of pr_review; collecting into a map
\* keeps the last entry of a repeated key.
file_commentable(files) ==
    [name \in {files[i].filename : i \in 1..Len(files)} |->
        LET last == CHOOSE i \in 1..Len(files) :
                        /\ files[i].filename = name
                        /\ \A j \in 1..Len(files) : files[j].filename = name => j <= i
        IN commentable_lines(hunks_of(files[last]))]

ReviewCommentInput(c) ==
    [path |-> c.path, line |-> c.line, body |-> c.body, start_line |-> c.start_line]

\* The body of the loop over input.comments: <<valid_comments, warnings>>.
validate_comment_any_line(fc, c, valid, warns) ==
    IF c.path \in DOMAIN fc
    THEN <<Append(valid, ReviewCommentInput(c)), warns>>
    ELSE <<valid, Append(warns, [kind |-> "not_changed_file", path |-> c.path, line |-> 0])>>

validate_comment(fc, c, valid, warns) ==
    IF c.path \in DOMAIN fc
    THEN IF c.line \in fc[c.path]
         THEN <<Append(valid, ReviewCommentInput(c)), warns>>
         ELSE <<valid, Append(warns, [kind |-> "not_commentable", path |-> c.path,
                                      line |-> c.line])>>
    ELSE <<valid, Append(warns, [kind |-> "not_changed_file", path |-> c.path, line |-> 0])>>

\* After the loop: bail when nothing validated, else post.
submit_decision_all_or_nothing(valid, warns) ==
    IF valid = <<>> \/ warns # <<>> THEN "bail" ELSE "post"

submit_decision(valid, warns) == IF valid = <<>> THEN "bail" ELSE "post"

CreateReview(comments) == [event |-> "COMMENT", comments |-> comments]

PathA == <<"s", "r", "c", "/", "a", ".", "r", "s">>
PathB == <<"b", ".", "r", "s">>
PathZ == <<"z", ".", "r", "s">>
PathLock == <<"C", "a", "r", "g", "o", ".", "l", "o", "c", "k">>

\* @@ -1,2 +1,3 @@ / context / -old / +new1 / +new2 : commentable {1, 2, 3}
PatchA ==
    <<FormatHeader(1, 2, 1, 3, TRUE, <<>>), <<" ", "c">>, <<"-", "b">>, <<"+", "a">>, <<"+", "a">>>>
\* @@ -12 +7 @@ / -old / +new : commentable {7}; 12 is carried by the Delete only
PatchB == <<FormatHeader(12, 1, 7, 1, FALSE, <<>>), <<"-", "b">>, <<"+", "a">>>>

MaxComments == 2

ReviewFileLists ==
    {<<PrFile(PathA, "modified", 2, 1, pa), PrFile(PathB, "modified", 1, 1, pb)>> :
        pa \in {None, Some(PatchA)}, pb \in {None, Some(PatchB)}}
    \cup {<<PrFile(PathA, "modified", 2, 1, pa), PrFile(PathLock, "modified", 1, 1, Some(PatchB))>> :
             pa \in {None, Some(PatchA)}}
CommentInputs ==
    [path : {PathA, PathB, PathZ, PathLock}, line : {2, 7, 12}, body : {"note"},
     start_line : {None, Some(1), Some(9)}]
CommentLists == UNION {[1..k -> CommentInputs] : k \in 0..MaxComments}

ReviewInit ==
    /\ rvFiles \in ReviewFileLists
    /\ rvComments \in CommentLists
    /\ rvIdx = 1
    /\ valid_comments = <<>> /\ warnings = <<>>
    /\ rvPc = "fetch" /\ rvResult = "none" /\ posted = <<>>
    /\ ParserIdle /\ DiffIdle /\ ClassIdle /\ TriageIdle /\ SearchIdle /\ OthersIdle

\* client.get_pr_with_patches(repo, number).await?
RvFetch ==
    /\ rvPc = "fetch"
    /\ \/ rvPc' = "read" /\ UNCHANGED rvResult
       \/ rvPc' = "done" /\ rvResult' = "err_fetch"
    /\ UNCHANGED <<rvFiles, rvComments, rvIdx, valid_comments, warnings, posted>>
    /\ UNCHANGED <<parserVars, diffVars, classVars, triageVars, searchVars,
                 pairsVars, rerunVars, rawVars>>

\* read_to_string(comments_file)? and serde_json::from_str(&raw)?
RvRead ==
    /\ rvPc = "read"
    /\ \/ rvPc' = "loop" /\ UNCHANGED rvResult
       \/ rvPc' = "done" /\ rvResult' \in {"err_read", "err_parse"}
    /\ UNCHANGED <<rvFiles, rvComments, rvIdx, valid_comments, warnings, posted>>
    /\ UNCHANGED <<parserVars, diffVars, classVars, triageVars, searchVars,
                 pairsVars, rerunVars, rawVars>>

\* One iteration of  for c in &input.comments
RvValidate ==
    /\ rvPc = "loop" /\ rvIdx <= Len(rvComments)
    /\ LET r == validate_comment(file_commentable(rvFiles), rvComments[rvIdx],
                                 valid_comments, warnings)
       IN valid_comments' = r[1] /\ warnings' = r[2]
    /\ rvIdx' = rvIdx + 1
    /\ UNCHANGED <<rvFiles, rvComments, rvPc, rvResult, posted>>
    /\ UNCHANGED <<parserVars, diffVars, classVars, triageVars, searchVars,
                 pairsVars, rerunVars, rawVars>>

\* The warnings are printed; then bail, or create_review and its answer.
RvSubmit ==
    /\ rvPc = "loop" /\ rvIdx > Len(rvComments)
    /\ rvPc' = "done"
    /\ IF submit_decision(valid_comments, warnings) = "bail"
       THEN rvResult' = "err_no_valid" /\ UNCHANGED posted
       ELSE /\ posted' = Append(posted, CreateReview(valid_comments))
            /\ rvResult' \in {"ok", "err_host"}
    /\ UNCHANGED <<rvFiles, rvComments, rvIdx, valid_comments, warnings>>
    /\ UNCHANGED <<parserVars, diffVars, classVars, triageVars, searchVars,
                 pairsVars, rerunVars, rawVars>>

ReviewNext == RvFetch \/ RvRead \/ RvValidate \/ RvSubmit
SpecReview == ReviewInit /\ [][ReviewNext]_vars

(***************************************************************************)
(* Properties of pr_review.                                                *)
(***************************************************************************)
Processed == SubSeq(rvComments, 1, rvIdx - 1)
IsChangedFile(path) == \E i \in 1..Len(rvFiles) : rvFiles[i].filename = path
Acceptable(c) ==
    \E i \in 1..Len(rvFiles) :
        /\ rvFiles[i].filename = c.path
        /\ c.line \in commentable_lines(hunks_of(rvFiles[i]))
Rejected(c) == ~Acceptable(c)
CommentsParsed == rvPc \in {"loop", "done"} /\ rvResult \notin {"err_fetch", "err_read", "err_parse"}

\* C1: a comment is accepted iff its path is a changed file and its line is in
\* that file's CommentableLines; every other comment gives exactly one
\* warning and the loop goes on, so accepted comments plus warnings number
\* the comments seen and the accepted ones keep their input order.
C1_ValidationPerComment ==
    /\ valid_comments = SelectSeq(Processed, Acceptable)
    /\ Len(warnings) = Len(SelectSeq(Processed, Rejected))
    /\ \A j \in 1..Len(warnings) :
          LET c == SelectSeq(Processed, Rejected)[j] IN
          /\ warnings[j].path = c.path
          /\ warnings[j].kind =
                IF IsChangedFile(c.path) THEN "not_commentable" ELSE "not_changed_file"
    /\ Len(valid_comments) + Len(warnings) = Len(Processed)
    /\ (CommentsParsed /\ rvPc = "done") => Len(Processed) = Len(rvComments)

\* C1 witness: a rejected comment followed by an accepted one.
C1_Witness ==
    /\ rvPc = "done" /\ Len(rvComments) = 2
    /\ Rejected(rvComments[1]) /\ Acceptable(rvComments[2])
    /\ Len(valid_comments) = 1 /\ Len(warnings) = 1
    /\ valid_comments[1].path = rvComments[2].path

\* C2: once the comments are parsed, the command fails on validation only if
\* no comment validates: with a valid comment one review is posted, holding
\* exactly the valid comments; with none the command errs and posts nothing.
C2_FailsOnlyIfNoneValid ==
    /\ Len(posted) <= 1
    /\ rvPc # "done" => posted = <<>>
    /\ (CommentsParsed /\ rvPc = "done") =>
          LET ok == SelectSeq(rvComments, Acceptable) IN
          /\ ok # <<>> => (posted = <<CreateReview(ok)>> /\ rvResult \in {"ok", "err_host"})
          /\ ok = <<>> => (posted = <<>> /\ rvResult = "err_no_valid")

\* C2 witness: a partially valid batch that was posted.
C2_Witness ==
    /\ rvPc = "done" /\ rvResult = "ok"
    /\ warnings # <<>>
    /\ Len(posted) = 1 /\ Len(posted[1].comments) = 1

(***************************************************************************)
(* Noise filter.                                                           *)
(***************************************************************************)
NOISE_EXACT ==
    { <<"p", "n", "p", "m", "-", "l", "o", "c", "k", ".", "y", "a", "m", "l">>,
      <<"p", "a", "c", "k", "a", "g", "e", "-", "l", "o", "c", "k", ".", "j", "s", "o", "n">>,
      <<"y", "a", "r", "n", ".", "l", "o", "c", "k">>,
      <<"n", "p", "m", "-", "s", "h", "r", "i", "n", "k", "w", "r", "a", "p", ".", "j", "s", "o", "n">>,
      <<"b", "u", "n", ".", "l", "o", "c", "k", "b">>,
      <<"C", "a", "r", "g", "o", ".", "l", "o", "c", "k">>,
      <<"G", "e", "m", "f", "i", "l", "e", ".", "l", "o", "c", "k">>,
      <<"p", "o", "e", "t", "r", "y", ".", "l", "o", "c", "k">>,
      <<"P", "i", "p", "f", "i", "l", "e", ".", "l", "o", "c", "k">>,
      <<"u", "v", ".", "l", "o", "c", "k">>,
      <<"g", "o", ".", "s", "u", "m">>,
      <<"c", "o", "m", "p", "o", "s", "e", "r", ".", "l", "o", "c", "k">>,
      <<"p", "a", "c", "k", "a", "g", "e", "s", ".", "l", "o", "c", "k", ".", "j", "s", "o", "n">>,
      <<"p", "u", "b", "s", "p", "e", "c", ".", "l", "o", "c", "k">>,
      <<"P", "a", "c", "k", "a", "g", "e", ".", "r", "e", "s", "o", "l", "v", "e", "d">>,
      <<"m", "i", "x", ".", "l", "o", "c", "k">>,
      <<".", "D", "S", "_", "S", "t", "o", "r", "e">> }

NOISE_EXTENSIONS ==
    { <<".", "m", "i", "n", ".", "j", "s">>,
      <<".", "m", "i", "n", ".", "c", "s", "s">>,
      <<".", "m", "a", "p">>,
      <<".", "c", "h", "u", "n", "k", ".", "j", "s">>,
      <<".", "b", "u", "n", "d", "l", "e", ".", "j", "s">> }

NOISE_PREFIXES ==
    { <<"d", "i", "s", "t", "/">>,
      <<".", "n", "e", "x", "t", "/">>,
      <<"b", "u", "i", "l", "d", "/">>,
      <<"_", "_", "g", "e", "n", "e", "r", "a", "t", "e", "d", "_", "_", "/">>,
      <<".", "t", "u", "r", "b", "o", "/">> }

Contains(s, sub) ==
    \E i \in 0..(Len(s) - Len(sub)) : SubSeq(s, i + 1, i + Len(sub)) = sub

\* path.rsplit('/').next(): the text after the last '/', or the whole path.
LastComponent(path) ==
    LET slashes == {i \in 1..Len(path) : path[i] = "/"} IN
    IF slashes = {} THEN path
    ELSE Drop(path, CHOOSE i \in slashes : \A j \in slashes : j <= i)

is_noise_file_on_whole_path(path) ==
    \/ \E n \in NOISE_EXACT : path = n
    \/ \E ext \in NOISE_EXTENSIONS : EndsWith(path, ext)
    \/ \E prefix \in NOISE_PREFIXES : StartsWith(path, prefix)

is_noise_file(path) ==
    \/ \E n \in NOISE_EXACT : LastComponent(path) = n
    \/ \E ext \in NOISE_EXTENSIONS : EndsWith(path, ext)
    \/ \E prefix \in NOISE_PREFIXES : StartsWith(path, prefix)

(***************************************************************************)
(* format_line_numbered_diff and format_hunk.                              *)
(***************************************************************************)
unwrap_or_0(o) == IF IsSome(o) THEN Unwrap(o) ELSE 0

format_row(line) ==
    IF line.kind = "add"
    THEN [ln |-> Some(unwrap_or_0(line.new_line)), sign |-> "+", content |-> line.content]
    ELSE IF line.kind = "delete"
    THEN [ln |-> None, sign |-> "-", content |-> line.content]
    ELSE [ln |-> Some(unwrap_or_0(line.new_line)), sign |-> " ", content |-> line.content]

format_hunk(hunk) ==
    [header |-> hunk.header, rows |-> [i \in 1..Len(hunk.lines) |-> format_row(hunk.lines[i])]]

DeletedBlock(file) ==
    [kind |-> "deleted", filename |-> file.filename, lines |-> file.deletions, hunks |-> <<>>]
NoDiffBlock(file) ==
    [kind |-> "no_diff", filename |-> file.filename, lines |-> 0, hunks |-> <<>>]
DiffBlock(file, hunks) ==
    [kind |-> "diff", filename |-> file.filename, lines |-> 0,
     hunks |-> [i \in 1..Len(hunks) |-> format_hunk(hunks[i])]]

format_line_numbered_diff_without_guard(file) ==
    IF file.status = "removed" THEN DeletedBlock(file)
    ELSE DiffBlock(file, hunks_of(file))

format_line_numbered_diff(file) ==
    IF file.status = "removed" THEN DeletedBlock(file)
    ELSE IF IsSome(file.patch) /\ Unwrap(file.patch) # <<>>
    THEN DiffBlock(file, parse_patch(Unwrap(file.patch)))
    ELSE NoDiffBlock(file)

format_stat_table(files) ==
    [i \in 1..Len(files) |->
        [status |-> files[i].status, additions |-> files[i].additions,
         deletions |-> files[i].deletions, filename |-> files[i].filename]]

(***************************************************************************)
(* ChangeClassifier: tokenize, jaccard_similarity, token_diff,             *)
(* extract_value_change, categorize_change.                                *)
(*                                                                         *)
(* A similarity is the pair <<intersection, union>> of the division the    *)
(* code makes in f64; 1.0 is <<1, 1>> and 0.0 is <<0, 1>>.  The comparisons *)
(* with 0.8 and 0.5 are made on the pair by cross-multiplication, which    *)
(* agrees with the f64 comparison for every token count below 2^50.        *)
(***************************************************************************)
IsSpace(c) == c \in {" ", "\n", "\t", "\r"}

\* str::trim
RECURSIVE TrimStart(_)
TrimStart(s) == IF s # <<>> /\ IsSpace(s[1]) THEN TrimStart(Drop(s, 1)) ELSE s
RECURSIVE TrimEnd(_)
TrimEnd(s) ==
    IF s # <<>> /\ IsSpace(s[Len(s)]) THEN TrimEnd(SubSeq(s, 1, Len(s) - 1)) ELSE s
Trim(s) == TrimEnd(TrimStart(s))

\* str::trim_end_matches(c): every trailing c is removed.
RECURSIVE TrimEndMatches(_, _)
TrimEndMatches(s, c) ==
    IF s # <<>> /\ s[Len(s)] = c THEN TrimEndMatches(SubSeq(s, 1, Len(s) - 1), c) ELSE s

\* str::lines().count(): a final line end does not open another line.
LineCount(s) ==
    Cardinality({i \in 1..Len(s) : s[i] = "\n"})
    + (IF s # <<>> /\ s[Len(s)] # "\n" THEN 1 ELSE 0)

\* split_whitespace().collect::<HashSet<_>>(): the tokens of s from position
\* i on, one run of characters that are not white space at a time.
MinOf(S) == CHOOSE x \in S : \A y \in S : x <= y

RECURSIVE tokens_from(_, _)
tokens_from(s, i) ==
    LET starts == {k \in i..Len(s) : ~IsSpace(s[k])} IN
    IF starts = {} THEN {}
    ELSE LET b == MinOf(starts)
             stops == {k \in b..Len(s) : IsSpace(s[k])}
             e == IF stops = {} THEN Len(s) + 1 ELSE MinOf(stops)
         IN {SubSeq(s, b, e - 1)} \cup tokens_from(s, e)

tokenize(s) == tokens_from(s, 1)

jaccard_similarity_over_before(before, after) ==
    LET a == tokenize(before)
        b == tokenize(after)
    IN IF a = {} /\ b = {} THEN <<1, 1>>
       ELSE IF Cardinality(a) = 0 THEN <<1, 1>>
       ELSE <<Cardinality(a \cap b), Cardinality(a)>>

jaccard_similarity(before, after) ==
    LET a == tokenize(before)
        b == tokenize(after)
    IN IF a = {} /\ b = {} THEN <<1, 1>>
       ELSE IF Cardinality(a \cup b) = 0 THEN <<1, 1>>
       ELSE <<Cardinality(a \cap b), Cardinality(a \cup b)>>

\* The orders in which a hash set may hand out its elements.
RECURSIVE IterationOrders(_)
IterationOrders(S) ==
    IF S = {} THEN {<<>>}
    ELSE UNION {{<<x>> \o rest : rest \in IterationOrders(S \ {x})} : x \in S}

token_diff_keeping_common(before, after) ==
    LET a == tokenize(before)
        b == tokenize(after)
    IN IterationOrders(a) \X IterationOrders(b \ a)

\* token_diff: the pairs <<removed, added>> it may return; the two vectors
\* are collected from hash-set differences, in the sets' iteration order.
token_diff(before, after) ==
    LET a == tokenize(before)
        b == tokenize(after)
    IN IterationOrders(a \ b) \X IterationOrders(b \ a)

ShortValueMaxLines == 2
ShortValueMaxLen == 200

is_short_value(content) ==
    LET trimmed == Trim(content) IN
    LineCount(trimmed) <= ShortValueMaxLines /\ Len(trimmed) < ShortValueMaxLen

extract_rhs(s) ==
    LET eqs == {i \in 1..Len(s) : s[i] = "="} IN
    IF eqs # {} THEN Trim(Drop(s, CHOOSE i \in eqs : \A j \in eqs : i <= j)) ELSE s

extract_value_change_of_any_length(before, after) ==
    LET b == Trim(TrimEndMatches(Trim(before), ";"))
        a == Trim(TrimEndMatches(Trim(after), ";"))
    IN IF b # a THEN Some(<<extract_rhs(b), extract_rhs(a)>>) ELSE None

extract_value_change(before, after) ==
    IF ~is_short_value(before) \/ ~is_short_value(after) THEN None
    ELSE LET b == Trim(TrimEndMatches(Trim(before), ";"))
             a == Trim(TrimEndMatches(Trim(after), ";"))
         IN IF b # a THEN Some(<<extract_rhs(b), extract_rhs(a)>>) ELSE None

SimGreater(sim, num, den) == sim[1] * den > num * sim[2]
SimLess(sim, num, den) == sim[1] * den < num * sim[2]
SimEquals(sim, num, den) == sim[1] * den = num * sim[2]

\* The category of a change with both contents present.
category_of_inclusive_threshold(vc, sim) ==
    IF IsSome(vc) THEN "Behavioral"
    ELSE IF ~SimLess(sim, 4, 5) THEN "Mechanical"
    ELSE IF SimLess(sim, 1, 2) THEN "NewLogic"
    ELSE "Behavioral"

category_of(vc, sim) ==
    IF IsSome(vc) THEN "Behavioral"
    ELSE IF SimGreater(sim, 4, 5) THEN "Mechanical"
    ELSE IF SimLess(sim, 1, 2) THEN "NewLogic"
    ELSE "Behavioral"

\* The arms of categorize_change with a content absent: <<category, similarity>>.
category_of_absent_swapped(before, after) ==
    IF before = None /\ after # None THEN <<"Mechanical", <<1, 1>>>>
    ELSE <<"NewLogic", <<0, 1>>>>

category_of_absent(before, after) ==
    IF before = None /\ after # None THEN <<"NewLogic", <<0, 1>>>>
    ELSE <<"Mechanical", <<1, 1>>>>

CategorizedChange(c, category, similarity, removed, added, vc) ==
    [category |-> category, change_type |-> c.change_type, entity_type |-> c.entity_type,
     entity_name |-> c.entity_name, file_path |-> c.file_path, similarity |-> similarity,
     removed_tokens |-> removed, added_tokens |-> added, value_change |-> vc]

\* categorize_change: the values it may return for one SemChange (they
\* differ only in the order of the token vectors).
categorize_change(c) ==
    IF IsSome(c.before_content) /\ IsSome(c.after_content)
    THEN LET before == Unwrap(c.before_content)
             after == Unwrap(c.after_content)
             sim == jaccard_similarity(before, after)
             vc == extract_value_change(before, after)
         IN {CategorizedChange(c, category_of(vc, sim), sim, d[1], d[2], vc) :
                d \in token_diff(before, after)}
    ELSE LET r == category_of_absent(c.before_content, c.after_content)
         IN {CategorizedChange(c, r[1], r[2], <<>>, <<>>, None)}

(***************************************************************************)
(* The classifier's inputs: contents of one token per line built from the  *)
(* first VocabSize words of a vocabulary, and a few one-line contents.     *)
(***************************************************************************)
VocabSize == 6

Vocab ==
    << <<"u", "s", "e">>, <<"s", "t", "d">>, <<"f", "o", "o">>, <<"b", "a", "r">>,
       <<"f", "n">>, <<"x">>, <<"u", "n", "u", "s", "e", "d">>, <<"l", "e", "t">> >>

\* The words of Vocab at the positions in S, one per line.
RECURSIVE JoinLines(_, _)
JoinLines(S, i) ==
    IF i > VocabSize THEN <<>>
    ELSE IF i \in S
         THEN Vocab[i] \o (IF \E j \in S : j > i THEN <<"\n">> ELSE <<>>) \o JoinLines(S, i + 1)
         ELSE JoinLines(S, i + 1)

Repeat(c, n) == [i \in 1..n |-> c]

ShortContents ==
    { <<"c", "o", "n", "s", "t", " ", "D", "E", "B", "U", "G", " ", "=", " ",
        "f", "a", "l", "s", "e", ";">>,
      <<"c", "o", "n", "s", "t", " ", "D", "E", "B", "U", "G", " ", "=", " ",
        "t", "r", "u", "e", ";">>,
      <<"x", " ", "=", " ", "1">>,
      <<"x", " ", "=", " ", "1", ";">>,
      <<"a", " ", "b", " ", "c", " ", "d", " ", "e", " ", "f">>,
      <<"a", " ", "b", " ", "c", " ", "d", " ", "e">>,
      <<" ", "a", "\n", "b", "\n">>,
      <<" ", " ">>,
      <<"f", " ", "e", " ", " ", "d", " ", "c", " ", "b", " ", "a", " ", "a">>,
      <<"a", " ", "=", " ", "b", " ", "=", " ", "c">>,
      <<"x", " ", "=", " ", "1", ";", ";">>,
      <<"x", " ", "=", " ", " ", "2", " ", ";", " ">>,
      <<"x", "=", "1", "\n", "y", "\n", "z">>,
      Repeat("y", ShortValueMaxLen - 1),
      Repeat("y", ShortValueMaxLen) }

ContentPairs ==
    {<<Some(JoinLines(1..m, 1)), Some(JoinLines(S, 1))>> :
        m \in 0..VocabSize, S \in SUBSET (1..VocabSize)}
    \cup {<<Some(b), Some(a)>> : b \in ShortContents, a \in ShortContents}
    \cup {<<None, Some(a)>> : a \in ShortContents}
    \cup {<<Some(b), None>> : b \in ShortContents}
    \cup {<<None, None>>}

SemChange(change_type, before, after) ==
    [change_type |-> change_type, entity_type |-> "function", entity_name |-> "f",
     file_path |-> PathA, old_file_path |-> None,
     before_content |-> before, after_content |-> after]

ClassInit ==
    /\ \E p \in ContentPairs :
          change = SemChange(IF p[1] = None THEN "added"
                             ELSE IF p[2] = None THEN "deleted" ELSE "modified", p[1], p[2])
    /\ categorized = None
    /\ clPc = "start"
    /\ ParserIdle /\ ReviewIdle /\ DiffIdle /\ TriageIdle /\ SearchIdle /\ OthersIdle

Categorize ==
    /\ clPc = "start"
    /\ \E r \in categorize_change(change) : categorized' = Some(r)
    /\ clPc' = "done"
    /\ UNCHANGED change
    /\ UNCHANGED <<parserVars, reviewVars, diffVars, triageVars, searchVars,
                 pairsVars, rerunVars, rawVars>>

ClassNext == Categorize
SpecClassify == ClassInit /\ [][ClassNext]_vars

(***************************************************************************)
(* Properties of the classifier.                                           *)
(***************************************************************************)
BothPresent == IsSome(change.before_content) /\ IsSome(change.after_content)

\* C9: with both contents present, a value change gives Behavioral whatever
\* the similarity; otherwise similarity > 0.8 gives Mechanical; otherwise
\* similarity < 0.5 gives NewLogic; otherwise (0.5 <= similarity <= 0.8,
\* both bounds included) Behavioral.
C9_CategoryPriority ==
    (clPc = "done" /\ BothPresent) =>
        LET r == Unwrap(categorized)
            n == r.similarity[1]
            d == r.similarity[2]
        IN /\ d > 0 /\ n <= d
           /\ IsSome(r.value_change) => r.category = "Behavioral"
           /\ (r.value_change = None /\ 5 * n > 4 * d) => r.category = "Mechanical"
           /\ (r.value_change = None /\ 2 * n < d) => r.category = "NewLogic"
           /\ (r.value_change = None /\ 2 * n >= d /\ 5 * n <= 4 * d)
                => r.category = "Behavioral"

\* C9 witness: similarity exactly 0.8 without a value change is Behavioral.
C9_Witness ==
    /\ clPc = "done" /\ BothPresent
    /\ Unwrap(categorized).value_change = None
    /\ Unwrap(categorized).similarity = <<4, 5>>
    /\ Unwrap(categorized).category = "Behavioral"

\* C10: the classifier returns a CategorizedChange for every combination of
\* absent and present contents: absent/present gives NewLogic with similarity
\* 0.0, present/absent and absent/absent give Mechanical with similarity 1.0.
C10_TotalOnAbsentContent ==
    /\ clPc = "start" => categorize_change(change) # {}
    /\ clPc = "done" =>
          /\ IsSome(categorized)
          /\ Unwrap(categorized).category \in {"Mechanical", "NewLogic", "Behavioral"}
          /\ (change.before_content = None /\ IsSome(change.after_content)) =>
                /\ Unwrap(categorized).category = "NewLogic"
                /\ SimEquals(Unwrap(categorized).similarity, 0, 1)
          /\ (IsSome(change.before_content) /\ change.after_content = None) =>
                /\ Unwrap(categorized).category = "Mechanical"
                /\ SimEquals(Unwrap(categorized).similarity, 1, 1)
          /\ (change.before_content = None /\ change.after_content = None) =>
                /\ Unwrap(categorized).category = "Mechanical"
                /\ SimEquals(Unwrap(categorized).similarity, 1, 1)

\* C10 witness: a change with no before content was classified.
C10_Witness ==
    /\ clPc = "done"
    /\ change.before_content = None /\ IsSome(change.after_content)
    /\ Unwrap(categorized).category = "NewLogic"

(***************************************************************************)
(* Properties of the similarity, the token difference and the value        *)
(* change.  TokensOf states the whitespace-split token set by positions:   *)
(* a token is a maximal run of characters that are not white space.        *)
(***************************************************************************)
TokensOf(s) ==
    LET starts == {i \in 1..Len(s) : ~IsSpace(s[i]) /\ (i = 1 \/ IsSpace(s[i - 1]))}
        ends == {j \in 1..Len(s) : ~IsSpace(s[j]) /\ (j = Len(s) \/ IsSpace(s[j + 1]))}
        EndOf(i) == CHOOSE j \in ends : j >= i /\ \A k \in ends : k >= i => j <= k
    IN {SubSeq(s, i, EndOf(i)) : i \in starts}

Before == Unwrap(change.before_content)
After == Unwrap(change.after_content)

\* C11: with both contents present the similarity is |A \cap B| / |A \cup B|
\* for the token sets A and B of before and after, and 1.0 when the union is
\* empty; it lies in [0,1], is symmetric, is 1.0 for equal token sets
\* whatever the order and the repetitions, and similarity(x, x) = 1.0.
C11_JaccardSimilarity ==
    (clPc = "done" /\ BothPresent) =>
        LET A == TokensOf(Before)
            B == TokensOf(After)
            sim == Unwrap(categorized).similarity
        IN /\ sim = IF A \cup B = {} THEN <<1, 1>>
                    ELSE <<Cardinality(A \cap B), Cardinality(A \cup B)>>
           /\ sim[2] > 0 /\ 0 <= sim[1] /\ sim[1] <= sim[2]
           /\ jaccard_similarity(After, Before) = sim
           /\ A = B => SimEquals(sim, 1, 1)
           /\ SimEquals(jaccard_similarity(Before, Before), 1, 1)
           /\ SimEquals(jaccard_similarity(After, After), 1, 1)

\* C11 witness: two different texts with the same six tokens, one of them
\* in another order and with a token repeated, have similarity 1.0.
C11_Witness ==
    /\ clPc = "done" /\ BothPresent
    /\ Before # After
    /\ Len(Before) # Len(After)
    /\ TokensOf(Before) = TokensOf(After)
    /\ Unwrap(categorized).similarity = <<6, 6>>

Range(seq) == {seq[i] : i \in 1..Len(seq)}
NoRepeat(seq) == \A i, j \in 1..Len(seq) : seq[i] = seq[j] => i = j

\* C12: with both contents present removed_tokens is exactly the tokens of
\* before that are not tokens of after, and added_tokens exactly the tokens
\* of after that are not tokens of before; neither vector repeats a token or
\* holds a token of both sides, the two are disjoint, and both are empty
\* exactly when the two token sets are equal.
C12_TokenDiff ==
    (clPc = "done" /\ BothPresent) =>
        LET A == TokensOf(Before)
            B == TokensOf(After)
            removed == Unwrap(categorized).removed_tokens
            added == Unwrap(categorized).added_tokens
        IN /\ Range(removed) = A \ B
           /\ Range(added) = B \ A
           /\ NoRepeat(removed) /\ NoRepeat(added)
           /\ Range(removed) \cap Range(added) = {}
           /\ Range(removed) \cap (A \cap B) = {}
           /\ Range(added) \cap (A \cap B) = {}
           /\ (removed = <<>> /\ added = <<>>) <=> (A = B)

\* C12 witness: two texts that share tokens and differ in tokens on both
\* sides, one of them repeating a token.
C12_Witness ==
    /\ clPc = "done" /\ BothPresent
    /\ TokensOf(Before) \cap TokensOf(After) # {}
    /\ Len(Unwrap(categorized).removed_tokens) >= 2
    /\ Len(Unwrap(categorized).added_tokens) >= 1
    /\ \E i, j \in 1..Len(Before) :
          /\ i < j /\ Before[i] = "a" /\ Before[j] = "a"
          /\ (i = 1 \/ IsSpace(Before[i - 1])) /\ IsSpace(Before[i + 1])
          /\ IsSpace(Before[j - 1]) /\ j = Len(Before)

\* The text between the first and the last character that is not white space.
Stripped(s) ==
    LET solid == {i \in 1..Len(s) : ~IsSpace(s[i])} IN
    IF solid = {} THEN <<>>
    ELSE SubSeq(s, MinOf(solid), CHOOSE i \in solid : \A j \in solid : j <= i)

\* At most ShortValueMaxLines lines and under ShortValueMaxLen characters
\* once stripped.
IsShort(s) ==
    LET t == Stripped(s)
        lines == IF t = <<>> THEN 0 ELSE 1 + Cardinality({i \in 1..Len(t) : t[i] = "\n"})
    IN lines <= ShortValueMaxLines /\ Len(t) < ShortValueMaxLen

\* The stripped text without its trailing ';' and the white space before it.
Core(s) ==
    LET t == Stripped(s)
        kept == {i \in 1..Len(t) : t[i] # ";"}
    IN IF kept = {} THEN <<>>
       ELSE Stripped(SubSeq(t, 1, CHOOSE i \in kept : \A j \in kept : j <= i))

\* The text after the first '=', or the whole text when it has none.
Rhs(t) ==
    LET eqs == {i \in 1..Len(t) : t[i] = "="} IN
    IF eqs = {} THEN t ELSE Stripped(SubSeq(t, MinOf(eqs) + 1, Len(t)))

DebugFalse ==
    <<"c", "o", "n", "s", "t", " ", "D", "E", "B", "U", "G", " ", "=", " ",
      "f", "a", "l", "s", "e", ";">>
DebugTrue ==
    <<"c", "o", "n", "s", "t", " ", "D", "E", "B", "U", "G", " ", "=", " ",
      "t", "r", "u", "e", ";">>

is_groupable_whatever_category(c) == TRUE
is_groupable(c) == c.category = "Mechanical"

\* A token is recorded when tok.len() >= 3.
PatternTokenMinLen == 3
is_pattern_token(tok) == Len(tok) >= PatternTokenMinLen

\* The filter on the map's entries: indices.len() >= 2.
PatternMinSize == 2
is_pattern_of_any_size(indices) == Len(indices) >= 1
is_pattern(indices) == Len(indices) >= PatternMinSize

\* token_to_indices[tok] once the loop has passed position i: i is pushed
\* once for each occurrence of tok in the change's removed_tokens.
RECURSIVE indices_upto(_, _, _)
indices_upto(changes, tok, i) ==
    IF i = 0 THEN <<>>
    ELSE LET c == changes[i]
             hits == IF is_groupable(c)
                     THEN Cardinality({k \in 1..Len(c.removed_tokens) :
                                          c.removed_tokens[k] = tok /\ is_pattern_token(tok)})
                     ELSE 0
         IN indices_upto(changes, tok, i - 1) \o Repeat(i, hits)

token_to_indices(changes) ==
    LET toks == UNION {Range(changes[i].removed_tokens) : i \in 1..Len(changes)}
        keys == {tok \in toks : indices_upto(changes, tok, Len(changes)) # <<>>}
    IN [tok \in keys |-> indices_upto(changes, tok, Len(changes))]

\* Vec::sort_by(|a, b| b.1.len().cmp(&a.1.len())): a stable sort by
\* descending group size.
insert_by_size(sorted, p) ==
    LET before == {k \in 1..Len(sorted) : Len(sorted[k][2]) >= Len(p[2])}
        n == Cardinality(before)
    IN SubSeq(sorted, 1, n) \o <<p>> \o SubSeq(sorted, n + 1, Len(sorted))

RECURSIVE sort_by_size(_)
sort_by_size(ps) ==
    IF ps = <<>> THEN <<>>
    ELSE insert_by_size(sort_by_size(SubSeq(ps, 1, Len(ps) - 1)), ps[Len(ps)])

\* detect_patterns: the vectors it may return, one for each order in which
\* the map hands out its entries.
detect_patterns(changes) ==
    LET map == token_to_indices(changes)
        kept == {<<tok, map[tok]>> : tok \in {t \in DOMAIN map : is_pattern(map[t])}}
    IN {sort_by_size(order) : order \in IterationOrders(kept)}

short_path(path) == LastComponent(path)

Take(seq, n) == SubSeq(seq, 1, IF Len(seq) < n THEN Len(seq) ELSE n)

FileListMax == 3
TopTokens == 3

\* "-a,b,c +d,e": the first three removed and the first three added tokens.
token_parts(c) ==
    [removed |-> Take(c.removed_tokens, TopTokens), added |-> Take(c.added_tokens, TopTokens)]

group_line(categorized_changes, p) ==
    LET indices == p[2]
        files == [k \in 1..Len(indices) |-> short_path(categorized_changes[indices[k]].file_path)]
    IN [kind |-> "group", icon |-> "removed", token |-> p[1], indices |-> indices,
        file_list |-> IF Len(files) <= FileListMax THEN [files |-> files]
                      ELSE [count |-> Len(indices)]]

mechanical_line(c, i) ==
    [kind |-> "single", index |-> i,
     icon |-> IF c.change_type = "deleted" THEN "removed"
              ELSE IF c.change_type = "renamed" THEN "renamed" ELSE "changed",
     path |-> short_path(c.file_path), name |-> c.entity_name,
     detail |-> IF c.change_type = "deleted" THEN [deleted |-> TRUE]
                ELSE IF c.removed_tokens # <<>> \/ c.added_tokens # <<>>
                THEN [tokens |-> token_parts(c)]
                ELSE [sim |-> c.similarity]]

new_logic_line(c, i) ==
    [kind |-> "single", index |-> i, icon |-> "added",
     path |-> short_path(c.file_path), name |-> c.entity_name, detail |-> c.entity_type]

behavioral_line(c, i) ==
    [kind |-> "single", index |-> i, icon |-> "changed",
     path |-> short_path(c.file_path), name |-> c.entity_name,
     detail |-> IF IsSome(c.value_change) THEN [value_change |-> Unwrap(c.value_change)]
                ELSE IF c.removed_tokens # <<>> \/ c.added_tokens # <<>>
                THEN [tokens |-> token_parts(c)]
                ELSE [sim |-> c.similarity]]

\* for (i, c) in categorized.iter().enumerate(): the positions up to i that
\* are in S, in the order of the loop.
RECURSIVE positions_upto(_, _)
positions_upto(S, i) ==
    IF i = 0 THEN <<>>
    ELSE positions_upto(S, i - 1) \o (IF i \in S THEN <<i>> ELSE <<>>)

\* The test of the individual MECHANICAL lines.
is_rendered_alone_even_if_grouped(c, i, grouped_indices) == c.category = "Mechanical"
is_rendered_alone(c, i, grouped_indices) ==
    ~(c.category # "Mechanical" \/ i \in grouped_indices)

section(title, cs, category, lines) ==
    IF lines # <<>>
    THEN << [title |-> title,
             count |-> Cardinality({i \in 1..Len(cs) : cs[i].category = category}),
             lines |-> lines] >>
    ELSE <<>>

\* format_smart_output once the batch is categorized and the patterns found.
render(summary, cs, pats) ==
    LET grouped_indices == UNION {Range(pats[k][2]) : k \in 1..Len(pats)}
        Alone(c, i) == is_rendered_alone(c, i, grouped_indices)
        IsNew(c, i) == ~(c.category # "NewLogic")
        IsBehavioral(c, i) == ~(c.category # "Behavioral")
        alone == positions_upto({i \in 1..Len(cs) : Alone(cs[i], i)}, Len(cs))
        new_logic == positions_upto({i \in 1..Len(cs) : IsNew(cs[i], i)}, Len(cs))
        behavioral == positions_upto({i \in 1..Len(cs) : IsBehavioral(cs[i], i)}, Len(cs))
        mechanical_lines ==
            [k \in 1..Len(pats) |-> group_line(cs, pats[k])]
            \o [k \in 1..Len(alone) |-> mechanical_line(cs[alone[k]], alone[k])]
        new_logic_lines ==
            [k \in 1..Len(new_logic) |-> new_logic_line(cs[new_logic[k]], new_logic[k])]
        behavioral_lines ==
            [k \in 1..Len(behavioral) |-> behavioral_line(cs[behavioral[k]], behavioral[k])]
    IN [kind |-> "report",
        header |-> IF IsSome(summary)
                   THEN Some([changes |-> Len(cs), files |-> Unwrap(summary).file_count])
                   ELSE None,
        sections |-> section("MECHANICAL", cs, "Mechanical", mechanical_lines)
                     \o section("NEW LOGIC", cs, "NewLogic", new_logic_lines)
                     \o section("BEHAVIORAL CHANGES", cs, "Behavioral", behavioral_lines)]

NoChanges == [kind |-> "no_changes", header |-> None, sections |-> <<>>]

\* changes.iter().map(categorize_change).collect(): the vectors it may give.
RECURSIVE categorize_all(_)
categorize_all(changes) ==
    IF changes = <<>> THEN {<<>>}
    ELSE {Append(front, last) :
            front \in categorize_all(SubSeq(changes, 1, Len(changes) - 1)),
            last \in categorize_change(changes[Len(changes)])}

(***************************************************************************)
(* The batches: up to MaxBatch changes drawn from a few samples.  Base9    *)
(* holds nine tokens, one per line, so that losing one or two tokens       *)
(* leaves a similarity above 0.8.                                          *)
(***************************************************************************)
MaxBatch == 4

Unused == <<"u", "n", "u", "s", "e", "d">>
LetWord == <<"l", "e", "t">>
FnWord == <<"f", "n">>

RECURSIVE JoinWords(_)
JoinWords(ws) ==
    IF ws = <<>> THEN <<>>
    ELSE IF Len(ws) = 1 THEN ws[1]
    ELSE ws[1] \o <<"\n">> \o JoinWords(Drop(ws, 1))

Base9 ==
    JoinWords(<< <<"a">>, <<"b">>, <<"c">>, <<"d">>, <<"e">>, <<"f">>, <<"g">>, <<"h">>, <<"i">> >>)

SampleChanges ==
    { SemChange("modified", Some(JoinWords(<<Base9, Unused, LetWord>>)), Some(Base9)),
      SemChange("modified", Some(JoinWords(<<Base9, Unused>>)), Some(Base9)),
      SemChange("modified", Some(JoinWords(<<Base9, LetWord>>)), Some(Base9)),
      SemChange("modified", Some(JoinWords(<<Base9, FnWord>>)), Some(Base9)),
      SemChange("added", None, Some(Base9)),
      SemChange("deleted", Some(Base9), None),
      SemChange("modified", Some(DebugFalse), Some(DebugTrue)),
      SemChange("modified", Some(JoinWords(<<Unused, Unused, Unused>>)),
                Some(JoinWords(<< <<"a">>, <<"a">>, <<"a">> >>))),
      SemChange("modified", Some(JoinWords(<<Unused, <<"a">>, <<"b">> >>)),
                Some(JoinWords(<< <<"a">>, <<"b">>, <<"b">> >>))) }

Batches == UNION {[1..k -> SampleChanges] : k \in 0..MaxBatch}

SemOutputs ==
    {[changes |-> Some(b), summary |-> s] :
        b \in Batches, s \in {None, Some([file_count |-> 1])}}
    \cup {[changes |-> None, summary |-> None]}

TriageInit ==
    /\ parsed \in SemOutputs
    /\ trCategorized = <<>>
    /\ patterns = <<>>
    /\ trReport = None
    /\ trPc = "start"
    /\ ParserIdle /\ ReviewIdle /\ DiffIdle /\ ClassIdle /\ SearchIdle /\ OthersIdle

\* let categorized = changes.iter().map(categorize_change).collect(), or the
\* early return when the analysis gave no change list.
TrCategorize ==
    /\ trPc = "start"
    /\ IF parsed.changes = None
       THEN trReport' = Some(NoChanges) /\ trPc' = "done" /\ UNCHANGED trCategorized
       ELSE /\ trCategorized' \in categorize_all(Unwrap(parsed.changes))
            /\ trPc' = "categorized"
            /\ UNCHANGED trReport
    /\ UNCHANGED <<parsed, patterns>>
    /\ UNCHANGED <<parserVars, reviewVars, diffVars, classVars, searchVars,
                 pairsVars, rerunVars, rawVars>>

\* let patterns = detect_patterns(&categorized)
TrDetect ==
    /\ trPc = "categorized"
    /\ patterns' \in detect_patterns(trCategorized)
    /\ trPc' = "detected"
    /\ UNCHANGED <<parsed, trCategorized, trReport>>
    /\ UNCHANGED <<parserVars, reviewVars, diffVars, classVars, searchVars,
                 pairsVars, rerunVars, rawVars>>

\* The rest of format_smart_output.
TrRender ==
    /\ trPc = "detected"
    /\ trReport' = Some(render(parsed.summary, trCategorized, patterns))
    /\ trPc' = "done"
    /\ UNCHANGED <<parsed, trCategorized, patterns>>
    /\ UNCHANGED <<parserVars, reviewVars, diffVars, classVars, searchVars,
                 pairsVars, rerunVars, rawVars>>

TriageNext == TrCategorize \/ TrDetect \/ TrRender
SpecTriage == TriageInit /\ [][TriageNext]_vars

(***************************************************************************)
(* Properties of the pattern detector and of the report.                   *)
(***************************************************************************)
BatchSize == Len(trCategorized)
Detected == trPc \in {"detected", "done"} /\ IsSome(parsed.changes)
Rendered == trPc = "done" /\ IsSome(parsed.changes)
PositionsOf(category) == {i \in 1..BatchSize : trCategorized[i].category = category}

\* The Mechanical changes whose removed_tokens hold tok.
Removers(tok) ==
    {i \in PositionsOf("Mechanical") : tok \in Range(trCategorized[i].removed_tokens)}

RepeatedTokens ==
    {tok \in UNION {Range(trCategorized[i].removed_tokens) : i \in 1..BatchSize} :
        Len(tok) >= 3 /\ Cardinality(Removers(tok)) >= 2}

Increasing(seq) == \A j, k \in 1..Len(seq) : j < k => seq[j] < seq[k]

\* C14: the detector returns one group for exactly each token of length at
\* least 3 that is in the removed_tokens of at least 2 Mechanical changes;
\* the members of a group are exactly the positions of those changes, in
\* increasing order and without repeats; a token removed by one change
\* gives no group, and a batch without a repeated token gives an empty
\* list.  The detector returns for every batch.
C14_PatternGroups ==
    /\ trPc = "categorized" => detect_patterns(trCategorized) # {}
    /\ Detected =>
          /\ {patterns[k][1] : k \in 1..Len(patterns)} = RepeatedTokens
          /\ \A j, k \in 1..Len(patterns) : patterns[j][1] = patterns[k][1] => j = k
          /\ \A k \in 1..Len(patterns) :
                /\ Range(patterns[k][2]) = Removers(patterns[k][1])
                /\ Increasing(patterns[k][2])
          /\ RepeatedTokens = {} => patterns = <<>>

\* C14 witness: three Mechanical changes remove "unused" and one of them
\* alone also removes "let"; the detector gives the one group of "unused".
C14_Witness ==
    /\ Detected
    /\ BatchSize = 3
    /\ Removers(Unused) = {1, 2, 3}
    /\ Cardinality(Removers(LetWord)) = 1
    /\ patterns = << <<Unused, <<1, 2, 3>>>> >>

\* The place where tok is first seen in the batch: the first change that
\* detect_patterns records it for, and its place in that change's
\* removed_tokens.
FirstSeen(tok) ==
    LET i == MinOf(Removers(tok))
        k == MinOf({m \in 1..Len(trCategorized[i].removed_tokens) :
                        trCategorized[i].removed_tokens[m] = tok})
    IN <<i, k>>

SeenBefore(a, b) == a[1] < b[1] \/ (a[1] = b[1] /\ a[2] < b[2])

\* C15 as stated: the groups come sorted by descending size and groups of
\* equal size keep the order in which their tokens were first seen, so the
\* batch determines the order of the groups.
C15_OrderDetermined ==
    Detected =>
        \A j, k \in 1..Len(patterns) :
            j < k =>
              /\ Len(patterns[j][2]) >= Len(patterns[k][2])
              /\ Len(patterns[j][2]) = Len(patterns[k][2]) =>
                    SeenBefore(FirstSeen(patterns[j][1]), FirstSeen(patterns[k][1]))

\* The group lines of the report.
SectionOf(title) ==
    LET ss == Unwrap(trReport).sections
        at == {k \in 1..Len(ss) : ss[k].title = title}
    IN IF at = {} THEN <<>> ELSE ss[CHOOSE k \in at : TRUE].lines

IsGroupLine(l) == l.kind = "group"
IsSingleLine(l) == l.kind = "single"
GroupLines == SelectSeq(SectionOf("MECHANICAL"), IsGroupLine)
SingleLines == SelectSeq(SectionOf("MECHANICAL"), IsSingleLine)

\* C16 as stated: in the rendered report each position is under at most
\* one group line.
C16_AtMostOneGroup ==
    Rendered =>
        \A i \in 1..BatchSize :
            Cardinality({k \in 1..Len(GroupLines) : i \in Range(GroupLines[k].indices)}) <= 1

IndexesOf(lines) == [k \in 1..Len(lines) |-> lines[k].index]
Claimed == UNION {Range(patterns[k][2]) : k \in 1..Len(patterns)}
GroupedInReport == UNION {Range(GroupLines[k].indices) : k \in 1..Len(GroupLines)}

\* C17: no NewLogic or Behavioral change is a member of a pattern group,
\* whatever its removed_tokens; each of them has exactly one line, in batch
\* order, in the section of its category, and none in the MECHANICAL one.
C17_NeverGrouped ==
    /\ Detected =>
          \A i \in Claimed : trCategorized[i].category \notin {"NewLogic", "Behavioral"}
    /\ Rendered =>
          /\ \A k \in 1..Len(SectionOf("NEW LOGIC")) : IsSingleLine(SectionOf("NEW LOGIC")[k])
          /\ Increasing(IndexesOf(SectionOf("NEW LOGIC")))
          /\ Range(IndexesOf(SectionOf("NEW LOGIC"))) = PositionsOf("NewLogic")
          /\ \A k \in 1..Len(SectionOf("BEHAVIORAL CHANGES")) :
                IsSingleLine(SectionOf("BEHAVIORAL CHANGES")[k])
          /\ Increasing(IndexesOf(SectionOf("BEHAVIORAL CHANGES")))
          /\ Range(IndexesOf(SectionOf("BEHAVIORAL CHANGES"))) = PositionsOf("Behavioral")
          /\ (GroupedInReport \cup Range(IndexesOf(SingleLines)))
                \cap (PositionsOf("NewLogic") \cup PositionsOf("Behavioral")) = {}

\* C17 witness: two NewLogic changes and a Behavioral one all remove
\* "unused"; no group is made and each has its line.
C17_Witness ==
    /\ Rendered
    /\ BatchSize = 3
    /\ \A i \in 1..3 : Unused \in Range(trCategorized[i].removed_tokens)
    /\ PositionsOf("NewLogic") = {1, 3}
    /\ PositionsOf("Behavioral") = {2}
    /\ patterns = <<>>
    /\ IndexesOf(SectionOf("NEW LOGIC")) = <<1, 3>>
    /\ IndexesOf(SectionOf("BEHAVIORAL CHANGES")) = <<2>>

\* C18: a Mechanical change that no pattern group claims has exactly one
\* line of its own, a claimed one has none, and so every Mechanical change
\* is in the MECHANICAL section, under a group line or on its own line.
C18_MechanicalCoverage ==
    Rendered =>
        /\ GroupedInReport = Claimed
        /\ Increasing(IndexesOf(SingleLines))
        /\ Range(IndexesOf(SingleLines)) = PositionsOf("Mechanical") \ Claimed
        /\ Range(IndexesOf(SingleLines)) \cap GroupedInReport = {}
        /\ GroupedInReport \cup Range(IndexesOf(SingleLines)) = PositionsOf("Mechanical")

\* C18 witness: two grouped Mechanical changes around an ungrouped one.
C18_Witness ==
    /\ Rendered
    /\ BatchSize = 3
    /\ PositionsOf("Mechanical") = {1, 2, 3}
    /\ Claimed = {1, 3}
    /\ IndexesOf(SingleLines) = <<2>>
    /\ Len(GroupLines) = 1

(***************************************************************************)
(* pr_grep and pr_ast_grep: which files are searched.  The contents of     *)
(* the files and the matches found in them are not modelled; the answers   *)
(* of the host (the PR, the code search, each file's content) are inputs.  *)
(***************************************************************************)
\* pr_file_paths: the PR's files kept by the --file filters, then by the
\* noise filter unless --all.
pr_file_paths(files, opts) ==
    LET ByFilter(p) ==
            \E k \in 1..Len(opts.file_filters) : Contains(p, opts.file_filters[k])
        NotNoise(p) == ~is_noise_file(p)
        filtered == IF opts.file_filters # <<>> THEN SelectSeq(files, ByFilter) ELSE files
    IN IF ~opts.include_all THEN SelectSeq(filtered, NotNoise) ELSE filtered

\* The test on one result of the repo-wide code search.
keeps_item_even_if_noise(path, paths, include_all) == path \notin Range(paths)
keeps_item(path, paths, include_all) ==
    /\ path \notin Range(paths)
    /\ include_all \/ ~is_noise_file(path)

code_search_paths(items, paths, include_all) ==
    LET Keeps(p) == keeps_item(p, paths, include_all) IN SelectSeq(items, Keeps)

\* fetch_file_contents skips the files whose content cannot be fetched: the
\* lists of files it may return.
fetch_file_contents(paths) ==
    {[k \in 1..Len(positions_upto(S, Len(paths))) |->
         paths[positions_upto(S, Len(paths))[k]]] : S \in SUBSET (1..Len(paths))}

\* The byte order of the characters of a path, for Vec::sort.
AsciiOrder ==
    <<"-", ".", "/", "0", "1", "2", "3", "4", "5", "6", "7", "8", "9", "A", "B", "C",
      "D", "E", "F", "G", "H", "I", "J", "K", "L", "M", "N", "O", "P", "Q", "R", "S",
      "T", "U", "V", "W", "X", "Y", "Z", "_", "a", "b", "c", "d", "e", "f", "g", "h",
      "i", "j", "k", "l", "m", "n", "o", "p", "q", "r", "s", "t", "u", "v", "w", "x",
      "y", "z">>
CharCode(c) == CHOOSE i \in 1..Len(AsciiOrder) : AsciiOrder[i] = c

RECURSIVE StrLess(_, _)
StrLess(a, b) ==
    IF b = <<>> THEN FALSE
    ELSE IF a = <<>> THEN TRUE
    ELSE IF a[1] = b[1] THEN StrLess(Drop(a, 1), Drop(b, 1))
    ELSE CharCode(a[1]) < CharCode(b[1])

\* all_file_paths.sort(); all_file_paths.dedup()
RECURSIVE sort_dedup(_)
sort_dedup(S) ==
    IF S = {} THEN <<>>
    ELSE LET m == CHOOSE x \in S : \A y \in S : x = y \/ StrLess(x, y)
         IN <<m>> \o sort_dedup(S \ {m})

SearchOut(kind, searched, code_search) ==
    [kind |-> kind, searched |-> searched, code_search |-> code_search]

\* pr_grep after the PR's paths are filtered: what it may print.
pr_grep(paths, items, opts) ==
    IF opts.repo_wide
    THEN {SearchOut("matches", files, code_search_paths(items, paths, opts.include_all)) :
             files \in fetch_file_contents(paths)}
         \cup {SearchOut("err_search", <<>>, <<>>)}
    ELSE {SearchOut("matches", files, <<>>) : files \in fetch_file_contents(paths)}

\* pr_ast_grep after the PR's paths are filtered: what it may print.
pr_ast_grep(paths, items, opts) ==
    LET found == code_search_paths(items, paths, opts.include_all)
        all_file_paths == IF opts.repo_wide THEN sort_dedup(Range(paths \o found)) ELSE paths
        searched ==
            IF all_file_paths = <<>> THEN {SearchOut("no_files", <<>>, <<>>)}
            ELSE UNION {IF files = <<>> THEN {SearchOut("no_readable", <<>>, <<>>)}
                        ELSE {SearchOut("matches", files, <<>>),
                              SearchOut("err_ast_grep", <<>>, <<>>)} :
                           files \in fetch_file_contents(all_file_paths)}
    IN searched \cup (IF opts.repo_wide THEN {SearchOut("err_search", <<>>, <<>>)} ELSE {})

MaxPaths == 2

PathYarn == <<"w", "e", "b", "/", "y", "a", "r", "n", ".", "l", "o", "c", "k">>
PathDist == <<"d", "i", "s", "t", "/", "a", "p", "p", ".", "j", "s">>
PathMin == <<"l", "i", "b", "/", "x", ".", "m", "i", "n", ".", "j", "s">>
PathSrcDist == <<"s", "r", "c", "/", "d", "i", "s", "t", "/", "a", ".", "j", "s">>
PathMyYarn == <<"m", "y", "-", "y", "a", "r", "n", ".", "l", "o", "c", "k">>
PathYarnDir ==
    <<"y", "a", "r", "n", ".", "l", "o", "c", "k", "/", "r", "e", "a", "d", "m", "e">>
PathMapTxt == <<"a", ".", "m", "a", "p", ".", "t", "x", "t">>
PathNext == <<".", "n", "e", "x", "t", "/", "b", ".", "j", "s">>
PathMap == <<"b", ".", "m", "a", "p">>
PathEmpty == <<>>

PrPaths == {PathA, PathLock, PathYarn, PathDist, PathMin, PathSrcDist}
ItemPaths == {PathA, PathEmpty, PathMyYarn, PathYarnDir, PathMapTxt, PathNext, PathMap}

DistinctLists(S) ==
    {l \in UNION {[1..k -> S] : k \in 0..MaxPaths} :
        \A i, j \in 1..Len(l) : i # j => l[i] # l[j]}

SearchOptions ==
    {o \in [cmd : {"pr_grep", "pr_ast_grep"},
            lang_ok : BOOLEAN,
            file_filters : {<<>>, <<<<"l", "o", "c", "k">>>>},
            repo_wide : BOOLEAN,
            include_all : BOOLEAN] :
        o.cmd = "pr_grep" => o.lang_ok}

SearchInit ==
    /\ srFiles \in DistinctLists(PrPaths)
    /\ srItems \in DistinctLists(ItemPaths)
    /\ srOpts \in SearchOptions
    /\ srPaths = <<>>
    /\ srPc = "start"
    /\ srOut = None
    /\ ParserIdle /\ ReviewIdle /\ DiffIdle /\ ClassIdle /\ TriageIdle /\ OthersIdle

\* client.get_pr(repo, number).await?
SrFetch ==
    /\ srPc = "start"
    /\ \/ srPc' = "fetched" /\ UNCHANGED srOut
       \/ srPc' = "done" /\ srOut' = Some(SearchOut("err_fetch", <<>>, <<>>))
    /\ UNCHANGED <<srFiles, srItems, srOpts, srPaths>>
    /\ UNCHANGED <<parserVars, reviewVars, diffVars, classVars, triageVars,
                 pairsVars, rerunVars, rawVars>>

\* pr_ast_grep parses --lang; both commands then filter the PR's paths.
SrFilter ==
    /\ srPc = "fetched"
    /\ IF srOpts.cmd = "pr_ast_grep" /\ ~srOpts.lang_ok
       THEN /\ srOut' = Some(SearchOut("err_lang", <<>>, <<>>))
            /\ srPc' = "done"
            /\ UNCHANGED srPaths
       ELSE /\ srPaths' = pr_file_paths(srFiles, srOpts)
            /\ srPc' = "filtered"
            /\ UNCHANGED srOut
    /\ UNCHANGED <<srFiles, srItems, srOpts>>
    /\ UNCHANGED <<parserVars, reviewVars, diffVars, classVars, triageVars,
                 pairsVars, rerunVars, rawVars>>

\* The rest of the command: fetch the contents, search, print.
SrSearch ==
    /\ srPc = "filtered"
    /\ \E out \in (IF srOpts.cmd = "pr_grep" THEN pr_grep(srPaths, srItems, srOpts)
                   ELSE pr_ast_grep(srPaths, srItems, srOpts)) :
          srOut' = Some(out)
    /\ srPc' = "done"
    /\ UNCHANGED <<srFiles, srItems, srOpts, srPaths>>
    /\ UNCHANGED <<parserVars, reviewVars, diffVars, classVars, triageVars,
                 pairsVars, rerunVars, rawVars>>

SearchNext == SrFetch \/ SrFilter \/ SrSearch
SpecSearch == SearchInit /\ [][SearchNext]_vars


(***************************************************************************)
(* pr_diff.  The answer of the semantic diff behind --smart-files is an    *)
(* input here: None when run_sem_stdin failed, else its parsed output,     *)
(* whose list of changes may be absent.                                    *)
(***************************************************************************)
\* The category categorize_change gives; it does not depend on the order of
\* the token vectors.
category_of_change(c) == (CHOOSE r \in categorize_change(c) : TRUE).category

\* get_smart_files_from_pairs, from the answer of run_sem_stdin on.
get_smart_files_from_pairs(sem) ==
    IF sem = None \/ Unwrap(sem).changes = None THEN None
    ELSE LET changes == Unwrap(Unwrap(sem).changes)
             kept == {i \in 1..Len(changes) : category_of_change(changes[i]) # "Mechanical"}
         IN Some(sort_dedup({changes[i].file_path : i \in kept}))

smart_list_of(opts) ==
    IF opts.smart_files
    THEN LET r == get_smart_files_from_pairs(opts.sem)
         IN IF IsSome(r) THEN Unwrap(r) ELSE <<>>
    ELSE <<>>

select_every_file(files, opts, smart_list) == files

\* The files pr_diff works on: --file filters, else the smart list, else all;
\* then the noise filter unless --all.
select_files(files, opts, smart_list) ==
    LET ByFilter(f) ==
            \E k \in 1..Len(opts.file_filters) : Contains(f.filename, opts.file_filters[k])
        BySmart(f) == \E k \in 1..Len(smart_list) : f.filename = smart_list[k]
        NotNoise(f) == ~is_noise_file(f.filename)
        chosen == IF opts.file_filters # <<>> THEN SelectSeq(files, ByFilter)
                  ELSE IF opts.smart_files /\ smart_list # <<>> THEN SelectSeq(files, BySmart)
                  ELSE files
    IN IF opts.include_all THEN chosen ELSE SelectSeq(chosen, NotNoise)

\* The --json export: filename -> commentable lines.
diff_json(files) ==
    [name \in {files[i].filename : i \in 1..Len(files)} |->
        LET last == CHOOSE i \in 1..Len(files) :
                        /\ files[i].filename = name
                        /\ \A j \in 1..Len(files) : files[j].filename = name => j <= i
        IN commentable_lines(hunks_of(files[last]))]

pr_diff(files, opts, smart_list) ==
    LET shown == select_files(files, opts, smart_list) IN
    IF opts.json THEN [kind |-> "json", body |-> diff_json(shown)]
    ELSE IF opts.stat_only THEN [kind |-> "stat", body |-> format_stat_table(shown)]
    ELSE [kind |-> "diff", body |-> [i \in 1..Len(shown) |-> format_line_numbered_diff(shown[i])]]

MaxFiles == 2

PathOld == <<"o", "l", "d", ".", "r", "s">>
PathImg == <<"i", "m", "g", ".", "p", "n", "g">>
PathE == <<"e", ".", "r", "s">>

\* get_pr_with_patches gives a removed file no patch (its section of the raw
\* diff has no "+++ b/" line); format_line_numbered_diff itself also takes a
\* present but empty patch.
SampleFiles ==
    { PrFile(PathA, "modified", 2, 1, Some(PatchA)),
      PrFile(PathLock, "modified", 1, 1, Some(PatchB)),
      PrFile(PathOld, "removed", 0, 3, None),
      PrFile(PathImg, "added", 0, 0, None),
      PrFile(PathE, "modified", 0, 0, Some(<<>>)) }

DiffFileLists ==
    {fs \in UNION {[1..k -> SampleFiles] : k \in 0..MaxFiles} :
        \A i, j \in 1..Len(fs) : i # j => fs[i].filename # fs[j].filename}

\* Changes the semantic diff may report for a path: one that loses one token
\* of ten (Mechanical), one that changes a short value (Behavioral), and an
\* added entity (NewLogic).
MechanicalAt(p) ==
    [SemChange("modified", Some(JoinWords(<<Base9, Unused>>)), Some(Base9)) EXCEPT !.file_path = p]
BehavioralAt(p) ==
    [SemChange("modified", Some(DebugFalse), Some(DebugTrue)) EXCEPT !.file_path = p]
NewLogicAt(p) == [SemChange("added", None, Some(Base9)) EXCEPT !.file_path = p]

SemOutput(changes) == [changes |-> changes]

SemAnswers ==
    { None,
      Some(SemOutput(None)),
      Some(SemOutput(Some(<<>>))),
      Some(SemOutput(Some(<<BehavioralAt(PathA)>>))),
      Some(SemOutput(Some(<<MechanicalAt(PathA)>>))),
      Some(SemOutput(Some(<<NewLogicAt(PathOld), BehavioralAt(PathImg)>>))),
      Some(SemOutput(Some(<<MechanicalAt(PathA), BehavioralAt(PathE), BehavioralAt(PathE)>>))),
      Some(SemOutput(Some(<<MechanicalAt(PathA), BehavioralAt(PathA)>>))) }

DiffOptions ==
    {o \in [file_filters : {<<>>, <<<<"r", "s">>>>, <<<<"l", "o", "c", "k">>, <<"p", "n", "g">>>>},
            smart_files : BOOLEAN,
            sem : SemAnswers,
            include_all : BOOLEAN, stat_only : BOOLEAN, json : BOOLEAN] :
        ~o.smart_files => o.sem = None}

DiffInit ==
    /\ dfFiles \in DiffFileLists
    /\ dfOpts \in DiffOptions
    /\ dfSmart = <<>>
    /\ dfPc = "start"
    /\ dfOut = None
    /\ ParserIdle /\ ReviewIdle /\ ClassIdle /\ TriageIdle /\ SearchIdle /\ OthersIdle

\* client.get_pr_with_patches(repo, number).await?
DfFetch ==
    /\ dfPc = "start"
    /\ \/ dfPc' = "fetched" /\ UNCHANGED dfOut
       \/ dfPc' = "failed" /\ dfOut' = Some([kind |-> "err_fetch", body |-> <<>>])
    /\ UNCHANGED <<dfFiles, dfOpts, dfSmart>>
    /\ UNCHANGED <<parserVars, reviewVars, classVars, triageVars, searchVars,
                 pairsVars, rerunVars, rawVars>>

\* let smart_list = ...
DfSmart ==
    /\ dfPc = "fetched"
    /\ dfSmart' = smart_list_of(dfOpts)
    /\ dfPc' = "listed"
    /\ UNCHANGED <<dfFiles, dfOpts, dfOut>>
    /\ UNCHANGED <<parserVars, reviewVars, classVars, triageVars, searchVars,
                 pairsVars, rerunVars, rawVars>>

\* The rest of pr_diff: select, filter, print.
DfRun ==
    /\ dfPc = "listed"
    /\ dfOut' = Some(pr_diff(dfFiles, dfOpts, dfSmart))
    /\ dfPc' = "done"
    /\ UNCHANGED <<dfFiles, dfOpts, dfSmart>>
    /\ UNCHANGED <<parserVars, reviewVars, classVars, triageVars, searchVars,
                 pairsVars, rerunVars, rawVars>>

DiffNext == DfFetch \/ DfSmart \/ DfRun
SpecDiff == DiffInit /\ [][DiffNext]_vars

\* pr_diff or pr_review, one command per run.
CommandsInit == DiffInit \/ ReviewInit
CommandsNext == DiffNext \/ ReviewNext
SpecCommands == CommandsInit /\ [][CommandsNext]_vars

(***************************************************************************)
(* Properties of the files without a patch.                                *)
(***************************************************************************)
NoPatch(f) == f.patch = None \/ f.patch = Some(<<>>)
Shown == select_files(dfFiles, dfOpts, dfSmart)

\* What pr_diff and pr_review do with a file that has no patch, whatever the
\* rendering of the file is: no hunk, no commentable line, an empty exported
\* list, and no error.
NoPatchIsNoError ==
    /\ \A i \in 1..Len(dfFiles) :
          NoPatch(dfFiles[i]) =>
            /\ hunks_of(dfFiles[i]) = <<>>
            /\ commentable_lines(hunks_of(dfFiles[i])) = {}
    /\ dfPc = "listed" => pr_diff(dfFiles, dfOpts, dfSmart).kind \in {"json", "stat", "diff"}
    /\ (dfPc = "done" /\ Unwrap(dfOut).kind = "json") =>
          \A i \in 1..Len(Shown) :
              NoPatch(Shown[i]) => Unwrap(dfOut).body[Shown[i].filename] = {}
    /\ rvPc \in {"read", "loop", "done"} =>
          \A i \in 1..Len(rvFiles) :
              NoPatch(rvFiles[i]) =>
                /\ file_commentable(rvFiles)[rvFiles[i].filename] = {}
                /\ \A j \in 1..Len(valid_comments) :
                      valid_comments[j].path # rvFiles[i].filename
    /\ (rvPc = "done" /\ rvResult = "err_no_valid") => SelectSeq(rvComments, Acceptable) = <<>>

\* C8 as stated: every shown file with an empty or absent patch is rendered
\* as "(no diff)".
C8_AlwaysNoDiff ==
    /\ NoPatchIsNoError
    /\ (dfPc = "done" /\ Unwrap(dfOut).kind = "diff") =>
          \A i \in 1..Len(Shown) :
              NoPatch(Shown[i]) => Unwrap(dfOut).body[i] = NoDiffBlock(Shown[i])

\* C8 amended: an empty or absent patch yields no hunk and no commentable
\* line, is exported with an empty list and is never an error; it is rendered
\* as "(no diff)" unless the file's status is removed, which is rendered as
\* "deleted: <path> (<deletions> lines)".
C8_NoDiffUnlessRemoved ==
    /\ NoPatchIsNoError
    /\ (dfPc = "done" /\ Unwrap(dfOut).kind = "diff") =>
          \A i \in 1..Len(Shown) :
              NoPatch(Shown[i]) =>
                Unwrap(dfOut).body[i] =
                    IF Shown[i].status = "removed" THEN DeletedBlock(Shown[i])
                    ELSE NoDiffBlock(Shown[i])

\* C8 witness: a rendered diff showing a file with an absent patch and a file
\* with an empty one.
C8_Witness ==
    /\ dfPc = "done" /\ Unwrap(dfOut).kind = "diff"
    /\ Len(Shown) = 2
    /\ Shown[1].patch = None /\ Shown[1].status # "removed"
    /\ Shown[2].patch = Some(<<>>)
    /\ Unwrap(dfOut).body[1].kind = "no_diff"

\* pr_diff, pr_grep or pr_ast_grep, one command per run.
FilteredInit == DiffInit \/ SearchInit
FilteredNext == DiffNext \/ SearchNext
SpecFiltered == FilteredInit /\ [][FilteredNext]_vars

(***************************************************************************)
(* Properties of the noise filter.                                         *)
(***************************************************************************)
\* The three rules, stated on the path itself.
ExactRule(path) ==
    \E e \in NOISE_EXACT : path = e \/ EndsWith(path, <<"/">> \o e)
SuffixRule(path) ==
    \E x \in NOISE_EXTENSIONS :
        \E i \in 0..Len(path) : SubSeq(path, i + 1, Len(path)) = x
PrefixRule(path) ==
    \E x \in NOISE_PREFIXES :
        \E i \in 0..Len(path) : SubSeq(path, 1, i) = x
IsNoise(path) == ExactRule(path) \/ SuffixRule(path) \/ PrefixRule(path)
NotNoise(path) == ~IsNoise(path)

SearchPathsSeen == Range(srFiles) \cup Range(srItems)

\* C19: a path is noise iff its file name is in the exact list, or it ends
\* with an entry of the suffix list, or it starts with an entry of the
\* prefix list; the empty path and a path matching no rule are not noise.
\* With no --file filter and without --all the searched PR files are
\* exactly the files that match no rule.
C19_NoiseRules ==
    /\ \A p \in SearchPathsSeen : is_noise_file(p) <=> IsNoise(p)
    /\ ~is_noise_file(PathEmpty)
    /\ (srPc \in {"filtered", "done"} /\ srOut \notin {Some(SearchOut("err_lang", <<>>, <<>>)),
                                                      Some(SearchOut("err_fetch", <<>>, <<>>))}
        /\ srOpts.file_filters = <<>> /\ ~srOpts.include_all) =>
          srPaths = SelectSeq(srFiles, NotNoise)

\* C19 witness: a lock file in a directory is dropped by the exact rule and
\* a path that only holds "dist/" inside is kept.
C19_Witness ==
    /\ srPc = "filtered"
    /\ srOpts.file_filters = <<>> /\ ~srOpts.include_all
    /\ srFiles = <<PathYarn, PathSrcDist>>
    /\ srPaths = <<PathSrcDist>>
    /\ PathEmpty \in Range(srItems)

\* The files a finished pr_diff printed or exported.
DiffOutputNames ==
    LET out == Unwrap(dfOut) IN
    IF out.kind = "json" THEN DOMAIN out.body
    ELSE IF out.kind \in {"stat", "diff"}
    THEN {out.body[i].filename : i \in 1..Len(out.body)}
    ELSE {}

\* The PR files that the --file filters, or else --smart-files, select.
DiffSelected ==
    {dfFiles[i].filename : i \in
        {j \in 1..Len(dfFiles) :
            IF dfOpts.file_filters # <<>>
            THEN \E k \in 1..Len(dfOpts.file_filters) :
                    Contains(dfFiles[j].filename, dfOpts.file_filters[k])
            ELSE IF dfOpts.smart_files /\ dfSmart # <<>>
            THEN dfFiles[j].filename \in Range(dfSmart)
            ELSE TRUE}}

SearchSelected ==
    {p \in Range(srFiles) :
        srOpts.file_filters # <<>> =>
            \E k \in 1..Len(srOpts.file_filters) : Contains(p, srOpts.file_filters[k])}

SearchOutputNames ==
    Range(srPaths)
    \cup (IF srOut = None THEN {}
          ELSE Range(Unwrap(srOut).searched) \cup Range(Unwrap(srOut).code_search))

\* C20: without --all no noise file is diffed or exported by pr_diff, nor
\* fetched or searched by pr_grep and pr_ast_grep, be it a PR file that a
\* --file filter matches or a result of the repo-wide code search; with
\* --all the noise filter removes nothing: every selected file is kept.
C20_NoiseExcludedByDefault ==
    /\ (dfPc = "done" /\ ~dfOpts.include_all) =>
          \A name \in DiffOutputNames : ~IsNoise(name)
    /\ (dfPc = "done" /\ dfOpts.include_all) => DiffOutputNames = DiffSelected
    /\ (srPc # "idle" /\ ~srOpts.include_all) =>
          \A p \in SearchOutputNames : ~IsNoise(p)
    /\ (srPc \in {"filtered", "done"} /\ srOpts.include_all /\ srPaths # <<>>) =>
          Range(srPaths) = SearchSelected
    /\ (srPc = "done" /\ srOpts.include_all /\ srOpts.repo_wide
        /\ srOpts.cmd = "pr_grep" /\ Unwrap(srOut).kind = "matches") =>
          Range(Unwrap(srOut).code_search) = Range(srItems) \ Range(srPaths)

\* C20 witness: a repo-wide pr_grep with --file lock on a PR that holds a
\* lock file, and a code search that answers a build output: nothing is
\* searched in either, while the other result of the code search is.
C20_Witness ==
    /\ srPc = "done"
    /\ srOpts.cmd = "pr_grep" /\ srOpts.repo_wide /\ ~srOpts.include_all
    /\ srOpts.file_filters # <<>>
    /\ PathLock \in Range(srFiles)
    /\ srItems = <<PathNext, PathMapTxt>>
    /\ Unwrap(srOut).kind = "matches"
    /\ Unwrap(srOut).searched = <<>>
    /\ Unwrap(srOut).code_search = <<PathMapTxt>>

(***************************************************************************)
(* get_file_pairs and the batch of the semantic diff.                      *)
(*                                                                         *)
(* pr_view --smart hands the visible files to get_file_pairs and pr_diff   *)
(* --smart-files hands pr.files.  get_file_pairs makes one future per      *)
(* file; a future awaits the content at the base ref and then the content  *)
(* at the head ref, and join_all polls the futures in any interleaving.    *)
(* The content the host holds for a path at a ref is the pair of the two,  *)
(* so that a content is known to be that of its own file; whether a fetch  *)
(* succeeds is the host's choice.                                          *)
(***************************************************************************)
\* other.to_lowercase() on the change types of the model's host.
to_lowercase(ct) ==
    IF ct = "UNKNOWN" THEN "unknown" ELSE IF ct = "COPIED" THEN "copied" ELSE ct

map_change_type(ct) ==
    IF ct = "ADDED" THEN "added"
    ELSE IF ct \in {"DELETED", "REMOVED"} THEN "removed"
    ELSE IF ct \in {"MODIFIED", "CHANGED"} THEN "modified"
    ELSE IF ct = "RENAMED" THEN "renamed"
    ELSE IF ct = "COPIED" THEN "copied"
    ELSE to_lowercase(ct)

\* get_pr: the file list of the PullRequest, without patches.
pr_files(nodes) ==
    [i \in 1..Len(nodes) |-> PrFile(nodes[i].path, map_change_type(nodes[i].changeType), 0, 0, None)]

\* The files whose contents the command fetches for the semantic diff.
smart_pair_files(opts, files) ==
    LET Visible(f) == ~is_noise_file(f.filename) IN
    IF opts.cmd = "pr_view" THEN SelectSeq(files, Visible) ELSE files

Content(path, ref) == [path |-> path, ref |-> ref]

NewFuture == [stage |-> "before", before |-> None, after |-> None, failed |-> FALSE]

\* The first await of a future: the content at the base ref, .ok().
poll_before(f, fut, ok) ==
    IF f.status = "added" THEN [fut EXCEPT !.stage = "after"]
    ELSE IF ok THEN [fut EXCEPT !.stage = "after", !.before = Some(Content(f.filename, "base"))]
    ELSE [fut EXCEPT !.stage = "after", !.failed = TRUE]

\* The second await: the content at the head ref, .ok().
poll_after(f, fut, ok) ==
    IF f.status = "removed" THEN [fut EXCEPT !.stage = "ready"]
    ELSE IF ok THEN [fut EXCEPT !.stage = "ready", !.after = Some(Content(f.filename, "head"))]
    ELSE [fut EXCEPT !.stage = "ready", !.failed = TRUE]

\* join_all: the outputs in the order of the futures, whatever the order in
\* which they completed.
join_in_completion_order(files, fs, order) ==
    [k \in 1..Len(order) |->
        <<files[order[k]].filename, files[order[k]].status,
          fs[order[k]].before, fs[order[k]].after>>]

join_all(files, fs, order) ==
    [i \in 1..Len(files) |-> <<files[i].filename, files[i].status, fs[i].before, fs[i].after>>]

\* The status sent to the semantic diff.
sem_status_as_reported(status) == status
sem_status(status) ==
    IF status = "added" THEN "added"
    ELSE IF status = "removed" THEN "deleted"
    ELSE IF status = "renamed" THEN "renamed"
    ELSE "modified"

SemFileInput(pair) ==
    [file_path |-> pair[1], status |-> sem_status(pair[2]), old_file_path |-> None,
     before_content |-> pair[3], after_content |-> pair[4]]

\* The batch run_sem_smart_from_pairs and get_smart_files_from_pairs send;
\* run_sem_smart_from_pairs sends none when the batch is empty.
sent_batch(opts, file_pairs) ==
    LET batch == [i \in 1..Len(file_pairs) |-> SemFileInput(file_pairs[i])] IN
    IF opts.cmd = "pr_view" /\ batch = <<>> THEN None ELSE Some(batch)

MaxPairFiles == 2

HostChangeTypes == {"ADDED", "DELETED", "MODIFIED", "RENAMED", "COPIED", "UNKNOWN"}
PairPaths == {PathA, PathB, PathLock}

HostFileLists ==
    {l \in UNION {[1..k -> [path : PairPaths, changeType : HostChangeTypes]] :
                     k \in 0..MaxPairFiles} :
        \A i, j \in 1..Len(l) : i # j => l[i].path # l[j].path}

PairsInit ==
    /\ gpOpts \in {[cmd |-> "pr_view", include_all |-> FALSE],
                   [cmd |-> "pr_diff", include_all |-> FALSE],
                   [cmd |-> "pr_diff", include_all |-> TRUE]}
    /\ gpPr \in HostFileLists
    /\ gpFiles = <<>> /\ futs = <<>> /\ gpOrder = <<>>
    /\ pairs = None /\ file_inputs = None
    /\ gpPc = "start"
    /\ ParserIdle /\ ReviewIdle /\ DiffIdle /\ ClassIdle /\ TriageIdle /\ SearchIdle
    /\ RerunIdle /\ RawIdle

\* The command up to the call of get_file_pairs, and the creation of the
\* futures.
GpCall ==
    /\ gpPc = "start"
    /\ gpFiles' = smart_pair_files(gpOpts, pr_files(gpPr))
    /\ futs' = [i \in 1..Len(gpFiles') |-> NewFuture]
    /\ gpPc' = "fetching"
    /\ UNCHANGED <<gpOpts, gpPr, gpOrder, pairs, file_inputs>>
    /\ UNCHANGED <<parserVars, reviewVars, diffVars, classVars, triageVars, searchVars,
                   rerunVars, rawVars>>

\* One future advances by one await.
GpPoll ==
    /\ gpPc = "fetching"
    /\ \E i \in 1..Len(futs), ok \in BOOLEAN :
          /\ futs[i].stage # "ready"
          /\ futs' = [futs EXCEPT ![i] =
                        IF futs[i].stage = "before" THEN poll_before(gpFiles[i], futs[i], ok)
                        ELSE poll_after(gpFiles[i], futs[i], ok)]
          /\ gpOrder' = IF futs'[i].stage = "ready" THEN Append(gpOrder, i) ELSE gpOrder
    /\ UNCHANGED <<gpOpts, gpPr, gpFiles, pairs, file_inputs, gpPc>>
    /\ UNCHANGED <<parserVars, reviewVars, diffVars, classVars, triageVars, searchVars,
                   rerunVars, rawVars>>

\* futures::future::join_all(futs).await
GpJoin ==
    /\ gpPc = "fetching"
    /\ \A i \in 1..Len(futs) : futs[i].stage = "ready"
    /\ pairs' = Some(join_all(gpFiles, futs, gpOrder))
    /\ gpPc' = "joined"
    /\ UNCHANGED <<gpOpts, gpPr, gpFiles, futs, gpOrder, file_inputs>>
    /\ UNCHANGED <<parserVars, reviewVars, diffVars, classVars, triageVars, searchVars,
                   rerunVars, rawVars>>

\* The batch is built and sent to the semantic diff.
GpSend ==
    /\ gpPc = "joined"
    /\ file_inputs' = sent_batch(gpOpts, Unwrap(pairs))
    /\ gpPc' = "done"
    /\ UNCHANGED <<gpOpts, gpPr, gpFiles, futs, gpOrder, pairs>>
    /\ UNCHANGED <<parserVars, reviewVars, diffVars, classVars, triageVars, searchVars,
                   rerunVars, rawVars>>

PairsNext == GpCall \/ GpPoll \/ GpJoin \/ GpSend
SpecPairs == PairsInit /\ [][PairsNext]_vars

\* pr_review, or the content fetch of pr_view --smart and pr_diff
\* --smart-files, one command per run.
GatedInit == ReviewInit \/ PairsInit
GatedNext == ReviewNext \/ PairsNext
SpecGated == GatedInit /\ [][GatedNext]_vars

(***************************************************************************)
(* Properties of the content fetch and of the batch.                       *)
(***************************************************************************)
\* The files whose patch pr_review has parsed into its map of commentable
\* lines, once the map is built.
ParsedForValidation ==
    IF rvPc = "loop" \/ rvIdx > 1
    THEN {rvFiles[i].filename : i \in {j \in 1..Len(rvFiles) : IsSome(rvFiles[j].patch)}}
    ELSE {}

\* The files whose content pair has been handed to the semantic diff.
Batch == IF IsSome(file_inputs) THEN Unwrap(file_inputs) ELSE <<>>
HandedToClassifier == {Batch[i].file_path : i \in 1..Len(Batch)}

\* C21: by default no noise file has its patch parsed for the validation of
\* pr_review, and none has its content pair handed to the classifier by
\* pr_view --smart or pr_diff --smart-files.
C21_NoiseGated ==
    /\ \A p \in ParsedForValidation : ~is_noise_file(p)
    /\ (gpPc = "done" /\ ~gpOpts.include_all) =>
          \A p \in HandedToClassifier : ~is_noise_file(p)

\* C22: a file one of whose content fetches failed has no record in the
\* batch handed to the semantic diff.
FailedFetch(i) == futs[i].failed
C22_FailedFileAbsent ==
    gpPc = "done" =>
        \A i \in 1..Len(futs) :
            FailedFetch(i) => gpFiles[i].filename \notin HandedToClassifier
C22_FailedReached ==
    /\ gpPc = "done"
    /\ \E i \in 1..Len(futs) : FailedFetch(i)

\* C25: every record of the batch has a status among added, modified,
\* deleted and renamed whatever the host reported; a removed file is sent as
\* deleted, an added record has no before content and a deleted record has
\* no after content.
SemStatuses == {"added", "modified", "deleted", "renamed"}
C25_BatchStatuses ==
    gpPc = "done" =>
        /\ Len(Batch) = Len(gpFiles)
        /\ \A i \in 1..Len(Batch) :
              /\ Batch[i].status \in SemStatuses
              /\ gpFiles[i].status = "removed" => Batch[i].status = "deleted"
              /\ Batch[i].status = "added" => Batch[i].before_content = None
              /\ Batch[i].status = "deleted" => Batch[i].after_content = None
C25_Reached ==
    /\ gpPc = "done"
    /\ \E i, j \in 1..Len(Batch) :
          /\ gpFiles[i].status = "removed"
          /\ gpFiles[j].status \in {"copied", "unknown"}

\* C29: whatever the order in which the fetches complete, the tuples are in
\* the order of the input list, each with the contents of its own file, and
\* so is the batch.
OwnContent(o, path, ref) == o = None \/ o = Some(Content(path, ref))
C29_InputOrder ==
    /\ IsSome(pairs) =>
          /\ Len(Unwrap(pairs)) = Len(gpFiles)
          /\ \A i \in 1..Len(gpFiles) :
                /\ Unwrap(pairs)[i][1] = gpFiles[i].filename
                /\ Unwrap(pairs)[i][2] = gpFiles[i].status
                /\ OwnContent(Unwrap(pairs)[i][3], gpFiles[i].filename, "base")
                /\ OwnContent(Unwrap(pairs)[i][4], gpFiles[i].filename, "head")
    /\ gpPc = "done" =>
          \A i \in 1..Len(Batch) :
              /\ Batch[i].file_path = gpFiles[i].filename
              /\ OwnContent(Batch[i].before_content, gpFiles[i].filename, "base")
              /\ OwnContent(Batch[i].after_content, gpFiles[i].filename, "head")
C29_ReverseCompletion ==
    /\ gpPc = "done"
    /\ gpOrder = <<2, 1>>
    /\ \A i \in 1..Len(Batch) :
          Batch[i].before_content # None /\ Batch[i].after_content # None

(***************************************************************************)
(* Two runs of the classifier on one record.  Every call of tokenize       *)
(* builds its own hash sets, each with its own hasher state.               *)
(***************************************************************************)
MaxRuns == 2

MaxDiffTokens == 2

\* The records of the classifier's inputs whose contents differ by at most
\* MaxDiffTokens tokens on each side.
FewDiffTokens(q) ==
    /\ q[1] # None /\ q[2] # None
    /\ Cardinality(tokenize(Unwrap(q[1])) \ tokenize(Unwrap(q[2]))) <= MaxDiffTokens
    /\ Cardinality(tokenize(Unwrap(q[2])) \ tokenize(Unwrap(q[1]))) <= MaxDiffTokens

RerunChanges ==
    SampleChanges \cup
    {SemChange("modified", p[1], p[2]) : p \in {q \in ContentPairs : FewDiffTokens(q)}}

RerunInit ==
    /\ rrChange \in RerunChanges
    /\ rrRuns = <<>>
    /\ ParserIdle /\ ReviewIdle /\ DiffIdle /\ ClassIdle /\ TriageIdle /\ SearchIdle
    /\ PairsIdle /\ RawIdle

\* One more call of categorize_change on the same record.
Rerun ==
    /\ DOMAIN rrChange # {}
    /\ Len(rrRuns) < MaxRuns
    /\ \E r \in categorize_change(rrChange) : rrRuns' = Append(rrRuns, r)
    /\ UNCHANGED rrChange
    /\ UNCHANGED <<parserVars, reviewVars, diffVars, classVars, triageVars, searchVars,
                   pairsVars, rawVars>>

RerunNext == Rerun
SpecRerun == RerunInit /\ [][RerunNext]_vars

\* C23: two runs of categorize_change on the same record agree on the
\* category, the similarity, the value change and the two token vectors,
\* the order of the tokens included.
C23_RunsAgree ==
    \A i, j \in 1..Len(rrRuns) :
        /\ rrRuns[i].category = rrRuns[j].category
        /\ rrRuns[i].similarity = rrRuns[j].similarity
        /\ rrRuns[i].value_change = rrRuns[j].value_change
        /\ rrRuns[i].removed_tokens = rrRuns[j].removed_tokens
        /\ rrRuns[i].added_tokens = rrRuns[j].added_tokens

\* The runs do agree on everything but the order of the tokens.
C23_AgreeUpToOrder ==
    \A i, j \in 1..Len(rrRuns) :
        /\ rrRuns[i].category = rrRuns[j].category
        /\ rrRuns[i].similarity = rrRuns[j].similarity
        /\ rrRuns[i].value_change = rrRuns[j].value_change
        /\ Range(rrRuns[i].removed_tokens) = Range(rrRuns[j].removed_tokens)
        /\ Range(rrRuns[i].added_tokens) = Range(rrRuns[j].added_tokens)

\* C24: every comment pr_review submits has start_line omitted, or equal to
\* line for a single-line comment, or below line for a span ending at line.
PostedComments == UNION {Range(posted[k].comments) : k \in 1..Len(posted)}
C24_StartLineWithinSpan ==
    \A c \in PostedComments :
        c.start_line = None \/ Unwrap(c.start_line) <= c.line

(***************************************************************************)
(* Properties of the export and of the selection of pr_diff.               *)
(***************************************************************************)
ChangedFiles == {dfFiles[i].filename : i \in 1..Len(dfFiles)}
Exported == Unwrap(dfOut).body
ExportDone == dfPc = "done" /\ Unwrap(dfOut).kind = "json"

\* The files the export is about: those the --file filters, or else
\* --smart-files, select, less the noise files unless --all.
ExportedFiles ==
    IF dfOpts.include_all THEN DiffSelected ELSE {name \in DiffSelected : ~IsNoise(name)}

\* C26: the export of pr_diff --json has exactly one entry per changed file
\* that passes the --file / --smart-files selection and the noise filter
\* (every changed file when there is neither selection nor noise), and the
\* entry maps the file's path to the commentable lines of the file's patch.
C26_ExportPerShownFile ==
    ExportDone =>
        /\ DOMAIN Exported = ExportedFiles
        /\ \A i \in 1..Len(dfFiles) :
              dfFiles[i].filename \in ExportedFiles =>
                Exported[dfFiles[i].filename] = commentable_lines(hunks_of(dfFiles[i]))

\* C26 as stated: one entry per changed file of the PR.
C26_EntryPerChangedFile ==
    ExportDone => DOMAIN Exported = ChangedFiles

\* C26 witness: an export that leaves out a changed file and holds another
\* with its commentable lines.
C26_Witness ==
    /\ ExportDone
    /\ ChangedFiles \ DOMAIN Exported # {}
    /\ \E name \in DOMAIN Exported : Exported[name] # {}

\* The analysis behind --smart-files answered with a list of changes.
AnalysisSucceeded == IsSome(dfOpts.sem) /\ IsSome(Unwrap(dfOpts.sem).changes)
ReportedChanges ==
    IF AnalysisSucceeded THEN Range(Unwrap(Unwrap(dfOpts.sem).changes)) ELSE {}
HasMeaningfulChange(name) ==
    \E c \in ReportedChanges :
        c.file_path = name /\ \A r \in categorize_change(c) : r.category # "Mechanical"

\* C27: with --smart-files, no --file filter and a successful analysis,
\* pr_diff shows only files with at least one non-Mechanical change, also
\* when every change is Mechanical.
C27_OnlyMeaningfulFiles ==
    (dfPc = "done" /\ dfOpts.smart_files /\ dfOpts.file_filters = <<>> /\ AnalysisSucceeded) =>
        \A name \in DiffOutputNames : HasMeaningfulChange(name)

\* What does hold: when some change is not Mechanical, only files with such
\* a change are shown.
C27_WhenSomeMeaningful ==
    (/\ dfPc = "done" /\ dfOpts.smart_files /\ dfOpts.file_filters = <<>>
     /\ \E name \in ChangedFiles \cup {c.file_path : c \in ReportedChanges} :
            HasMeaningfulChange(name)) =>
        \A name \in DiffOutputNames : HasMeaningfulChange(name)

(***************************************************************************)
(* parse_raw_diff: the raw unified diff of the PR, given as its lines      *)
(* (raw.lines()), is cut into one patch per file.  A patch is a text whose *)
(* lines are joined by "\n".                                               *)
(***************************************************************************)
DiffGitPrefix == <<"d", "i", "f", "f", " ", "-", "-", "g", "i", "t", " ">>
NewPathPrefix == <<"+", "+", "+", " ", "b", "/">>
HunkPrefix == <<"@", "@">>
SkippedPrefixes ==
    { <<"-", "-", "-", " ">>,
      <<"+", "+", "+", " ">>,
      <<"i", "n", "d", "e", "x", " ">>,
      <<"n", "e", "w", " ", "f", "i", "l", "e">>,
      <<"d", "e", "l", "e", "t", "e", "d", " ", "f", "i", "l", "e">>,
      <<"o", "l", "d", " ", "m", "o", "d", "e">>,
      <<"n", "e", "w", " ", "m", "o", "d", "e">>,
      <<"s", "i", "m", "i", "l", "a", "r", "i", "t", "y">>,
      <<"r", "e", "n", "a", "m", "e", " ">> }

\* The test of the third branch of the loop.
is_patch_line(line, current_file) ==
    \/ StartsWith(line, HunkPrefix)
    \/ /\ IsSome(current_file)
       /\ \A p \in SkippedPrefixes : ~StartsWith(line, p)

\* current_patch.push('\n') unless empty, then push_str(line)
push_line(current_patch, line) ==
    IF current_patch = <<>> THEN line ELSE current_patch \o <<"\n">> \o line

RECURSIVE trim_start_newlines(_)
trim_start_newlines(s) ==
    IF s # <<>> /\ s[1] = "\n" THEN trim_start_newlines(Drop(s, 1)) ELSE s

map_insert(map, key, value) ==
    [k \in DOMAIN map \cup {key} |-> IF k = key THEN value ELSE map[k]]

\* Save the patch of the current file, if there is one and it is not empty.
save_patch(st) ==
    IF IsSome(st.current_file) /\ st.current_patch # <<>>
    THEN map_insert(st.map, Unwrap(st.current_file), trim_start_newlines(st.current_patch))
    ELSE st.map

\* One iteration of  for line in raw.lines()
raw_line(st, line) ==
    IF StartsWith(line, DiffGitPrefix)
    THEN [map |-> save_patch(st), current_file |-> None, current_patch |-> <<>>]
    ELSE IF StartsWith(line, NewPathPrefix)
    THEN [st EXCEPT !.current_file = Some(Drop(line, Len(NewPathPrefix)))]
    ELSE IF is_patch_line(line, st.current_file) /\ IsSome(st.current_file)
    THEN [st EXCEPT !.current_patch = push_line(st.current_patch, line)]
    ELSE st

RECURSIVE raw_lines_from(_, _, _)
raw_lines_from(lines, i, st) ==
    IF i > Len(lines) THEN st ELSE raw_lines_from(lines, i + 1, raw_line(st, lines[i]))

EmptyMap == [k \in {} |-> <<>>]

parse_raw_diff(lines) ==
    save_patch(raw_lines_from(lines, 1,
                              [map |-> EmptyMap, current_file |-> None, current_patch |-> <<>>]))

(***************************************************************************)
(* The raw diffs: up to two file sections, each with its git header lines, *)
(* one hunk header and up to MaxBody body lines.  "--- x" is the deletion  *)
(* of the line "-- x" and "+++ y" the addition of the line "++ y".         *)
(***************************************************************************)
MaxBody == 2

DevNullLine == <<"+", "+", "+", " ", "/", "d", "e", "v", "/", "n", "u", "l", "l">>
IndexLine == <<"i", "n", "d", "e", "x", " ", "1", ".", ".", "2", " ", "1", "0", "0", "6", "4", "4">>
OldPathPrefix == <<"-", "-", "-", " ", "a", "/">>
GitPathA == <<"a", "/">>
GitPathB == <<" ", "b", "/">>

RawBodyLines ==
    { <<" ", "c">>, <<"+", "a">>, <<"-", "b">>,
      <<"-", "-", "-", " ", "x">>,
      <<"+", "+", "+", " ", "y">> }
Bodies == UNION {[1..k -> RawBodyLines] : k \in 0..MaxBody}

FileSection(path, removed, body) ==
    << DiffGitPrefix \o GitPathA \o path \o GitPathB \o path,
       IndexLine,
       OldPathPrefix \o path,
       IF removed THEN DevNullLine ELSE NewPathPrefix \o path,
       FormatHeader(1, 2, 1, 3, TRUE, <<>>) >> \o body

FileSections(path, bodies) == {FileSection(path, r, b) : r \in BOOLEAN, b \in bodies}

\* The section of src/a.rs has any body; the section of b.rs, before or
\* after it, has at most one body line.
RawDiffs ==
    LET sa == FileSections(PathA, Bodies)
        sb == FileSections(PathB, {b \in Bodies : Len(b) <= 1})
    IN {<<>>} \cup sa
       \cup {s1 \o s2 : s1 \in sa, s2 \in sb}
       \cup {s2 \o s1 : s1 \in sa, s2 \in sb}

RawInit ==
    /\ raw \in RawDiffs
    /\ patch_map = None
    /\ rawPc = "start"
    /\ ParserIdle /\ ReviewIdle /\ DiffIdle /\ ClassIdle /\ TriageIdle /\ SearchIdle
    /\ PairsIdle /\ RerunIdle

\* let patch_map = parse_raw_diff(&raw_diff);
RawParse ==
    /\ rawPc = "start"
    /\ patch_map' = Some(parse_raw_diff(raw))
    /\ rawPc' = "done"
    /\ UNCHANGED raw
    /\ UNCHANGED <<parserVars, reviewVars, diffVars, classVars, triageVars, searchVars,
                   pairsVars, rerunVars>>

RawNext == RawParse
SpecRaw == RawInit /\ [][RawNext]_vars

(***************************************************************************)
(* Properties of parse_raw_diff.  A section runs from a "diff --git " line *)
(* to the line before the next one; its hunk lines run from its first hunk *)
(* header to its end.                                                      *)
(***************************************************************************)
SectionStarts == {i \in 1..Len(raw) : StartsWith(raw[i], DiffGitPrefix)}
SectionEnd(i) ==
    IF \E j \in SectionStarts : j > i
    THEN MinOf({j \in SectionStarts : j > i}) - 1
    ELSE Len(raw)
FirstHunk(i) ==
    IF \E j \in i..SectionEnd(i) : StartsWith(raw[j], HunkPrefix)
    THEN MinOf({j \in i..SectionEnd(i) : StartsWith(raw[j], HunkPrefix)})
    ELSE SectionEnd(i) + 1
HunkLines(i) == SubSeq(raw, FirstHunk(i), SectionEnd(i))
NewPathLines(i) == {k \in i..(FirstHunk(i) - 1) : StartsWith(raw[k], NewPathPrefix)}
HasNewPath(i) == NewPathLines(i) # {}
NewPath(i) == Drop(raw[CHOOSE k \in NewPathLines(i) : TRUE], Len(NewPathPrefix))

RECURSIVE JoinedByNewline(_)
JoinedByNewline(ls) ==
    IF ls = <<>> THEN <<>>
    ELSE IF Len(ls) = 1 THEN ls[1]
    ELSE ls[1] \o <<"\n">> \o JoinedByNewline(Tail(ls))

\* C28: for each section of the raw diff, the patch stored under the
\* section's new path is exactly the section's hunk headers and body lines
\* in their order, no body line dropped and none of another section taken.
C28_EveryHunkLineKept ==
    rawPc = "done" =>
        /\ DOMAIN Unwrap(patch_map) = {NewPath(i) : i \in {j \in SectionStarts : HasNewPath(j)}}
        /\ \A i \in SectionStarts :
              HasNewPath(i) => Unwrap(patch_map)[NewPath(i)] = JoinedByNewline(HunkLines(i))

\* What does hold: the keys are the new paths, and a section none of whose
\* body lines starts like a metadata line is kept whole.
PlainSection(i) ==
    \A j \in (FirstHunk(i) + 1)..SectionEnd(i) :
        \A p \in SkippedPrefixes : ~StartsWith(raw[j], p)
C28_PlainSectionsKept ==
    rawPc = "done" =>
        /\ DOMAIN Unwrap(patch_map) = {NewPath(i) : i \in {j \in SectionStarts : HasNewPath(j)}}
        /\ \A i \in SectionStarts :
              (HasNewPath(i) /\ PlainSection(i)) =>
                  Unwrap(patch_map)[NewPath(i)] = JoinedByNewline(HunkLines(i))

\* C30: in a repo-wide pr_grep no match of the code search is reported for
\* a path that is one of the PR's changed files, be the file searched in
\* its PR version or left out of it by a --file filter or the noise filter.
C30_PrVersionFirst ==
    (/\ srPc = "done" /\ srOpts.cmd = "pr_grep" /\ srOpts.repo_wide
     /\ Unwrap(srOut).kind = "matches") =>
        Range(Unwrap(srOut).code_search) \cap Range(srFiles) = {}

\* What does hold: no match of the code search is reported for a file that
\* is searched in its PR version, nor without --all for a noise file.
C30_SearchedVersionFirst ==
    (/\ srPc = "done" /\ srOpts.cmd = "pr_grep" /\ srOpts.repo_wide
     /\ Unwrap(srOut).kind = "matches") =>
        /\ Range(Unwrap(srOut).code_search) \cap Range(srPaths) = {}
        /\ ~srOpts.include_all =>
              \A p \in Range(Unwrap(srOut).code_search) : ~IsNoise(p)

====
